---- MODULE Spec2Model ----
(***************************************************************************)
(* Model of the facebook-messenger automation core:                        *)
(*   core/rate_limiter.py        RateLimiter (sliding 24 h request budget)  *)
(*   services/session_service.py SessionService (cookie persistence)        *)
(*   services/captcha_service.py SimpleCaptchaService.check_and_solve       *)
(*   services/facebook_service.py FacebookService (login, restore_session,  *)
(*                               location check and correction)             *)
(*   test_navigation.py          the top-level restore-then-login flow      *)
(*                                                                         *)
(* The browser driver and the platform behind it are the environment: each  *)
(* driver call is modelled by the observation it returns, chosen           *)
(* nondeterministically, or by the exception it raises.                    *)
(***************************************************************************)
EXTENDS Integers, Sequences, FiniteSets, TLC

(***************************************************************************)
(* Program constants and model bounds                                      *)
(***************************************************************************)

\* 24 * 60 * 60, the trailing horizon of the rate window, in seconds
WindowSeconds == 86400

\* page_source.count('rebel') < 5 in _verify_uk_location
RebelLimit == 5

\* uk_score >= 2 in _verify_uk_location
UkScoreNeeded == 2

\* largest max_requests_per_day the model constructs a RateLimiter with
MaxBudget == 2

\* record_request calls a RateLimiter makes beyond its full log
MaxRecords == 2

\* lines of the request log present when the RateLimiter is constructed
MaxLogLines == 2

\* time.sleep(2) between two polls of wait_for_security_code
SleepSeconds == 2

\* longest timeout, in seconds, the model passes to wait_for_security_code
MaxTimeout == 5

\* seconds by which a sleep may run longer than asked
MaxOversleep == 1

\* attempted INSERTs the model lets the order_id sequence number
MaxSerial == 4

\* longest list of leads the model passes to create_batch
MaxBatch == 3

VARIABLES
    \* ---- RateLimiter ----
    now,                 \* time.time(), whole seconds
    max_requests,        \* self.max_requests
    request_timestamps,  \* self.request_timestamps
    log_file,            \* lines of self.log_file
    recorded,            \* every timestamp the instance loaded or recorded
    can_result,          \* outcome of the last can_make_request call
    rl_op,               \* the RateLimiter operation that ran last
    peer,                \* a second RateLimiter on the same log file: whether
                         \* it is constructed, its request_timestamps, and
                         \* its last operation and answer
    \* ---- SessionService ----
    laptop_file,         \* /app/laptop_cookies.json, the external export
    cookie_file,         \* fb_cookies.pkl
    json_cookie_file,    \* fb_cookies.json
    session_info_file,   \* session_info.json
    ss_arg,              \* the cookies argument of the last call
    load_result,         \* what load_cookies returned last
    validate_result,     \* what validate_cookies returned last
    save_result,         \* what save_cookies returned last
    save_writes,         \* how the three file operations of the last save_cookies
                         \* or clear_session went
    ss_op,               \* the SessionService operation that ran last
    \* ---- FacebookService: location check and correction ----
    loc_pc,              \* position inside check_and_fix_location
    loc_page,            \* the marketplace page the last check read
    loc_check,           \* which check read it: "initial" or "verify"
    loc_accept,          \* whether that check took the page for the UK
    loc_tried,           \* the correction methods started, in order
    loc_n,               \* attempts made inside the current method
    loc_result,          \* what check_and_fix_location returned
    \* ---- FacebookService.restore_session and login, in the top-level flow ----
    pc,                  \* position in test_navigation / restore_session / login
    creds_ok,            \* config.facebook.username and password are set
    captcha_cfg,         \* self.captcha: "none", "disabled" or "enabled"
    driver_cookies,      \* the cookies the browser holds
    events,              \* what the flow has done to the browser so far
    restore_result,      \* what restore_session returned
    login_result,        \* what login returned
    \* ---- LeadRepository / LeadsRepository over the leads table ----
    unique_key,          \* the UNIQUE constraint the leads table was created with
    leads_table,         \* the committed rows of the leads table
    leads_seq,           \* next value of the order_id SERIAL sequence
    lead_op,             \* the repository operation that ran last
    lead_arg,            \* its argument: a lead, or a list of leads
    lead_result,         \* what it returned
    lead_before,         \* the committed rows when it was called
    lead_prev,           \* the call before it: operation, argument, result, rows
    \* ---- NavigationService ----
    nav_driver,          \* self.driver is set
    nav_pc,              \* "finding" inside find_message_button's loop, else "idle"
    nav_op,              \* the NavigationService operation called last
    nav_page,            \* what the browser answered during that call
    nav_tried,           \* the selectors that call tried, in order
    nav_clicks,          \* the selectors whose element that call clicked
    nav_result,          \* what that call returned
    \* ---- LoginHandler.wait_for_security_code ----
    code_wait,           \* the call in progress: where it is, its timeout,
                         \* time.time() - start_time, the URLs it has read
                         \* and what it returned
    \* ---- SimpleCaptchaService.check_and_solve on its own ----
    captcha_call         \* the call in progress: where it is, what it found
                         \* before and after its click, and what it returned

rateVars == <<now, max_requests, request_timestamps, log_file, recorded,
              can_result, rl_op, peer>>

sessVars == <<laptop_file, cookie_file, json_cookie_file, session_info_file,
              ss_arg, load_result, validate_result, save_result, save_writes,
              ss_op>>

locVars == <<loc_pc, loc_page, loc_check, loc_accept, loc_tried, loc_n,
             loc_result>>

authVars == <<pc, creds_ok, captcha_cfg, driver_cookies, events,
              restore_result, login_result>>

leadVars == <<unique_key, leads_table, leads_seq, lead_op, lead_arg,
              lead_result, lead_before, lead_prev>>

navVars == <<nav_driver, nav_pc, nav_op, nav_page, nav_tried, nav_clicks,
            nav_result>>

waitVars == <<code_wait>>

capVars == <<captcha_call>>

vars == <<rateVars, sessVars, locVars, authVars, leadVars, navVars,
          waitVars, capVars>>

(***************************************************************************)
(* Sequence helpers                                                        *)
(***************************************************************************)

RECURSIVE SeqMin(_)
SeqMin(s) ==
    IF Len(s) = 1 THEN s[1]
    ELSE LET m == SeqMin(Tail(s)) IN IF s[1] < m THEN s[1] ELSE m

SeqsUpTo(S, n) == UNION {[1..k -> S] : k \in 0..n}

(***************************************************************************)
(* RateLimiter                                                             *)
(***************************************************************************)

\* A line of the request log: a decimal timestamp, or text float() rejects.
GoodLine(t) == [valid |-> TRUE, ts |-> t]
BadLine == [valid |-> FALSE, ts |-> 0]

\* The instants the clock is observed at.  WindowSeconds after an entry is
\* the first instant at which the entry is 24 hours old.
Instants ==
    {1, 2, WindowSeconds, WindowSeconds + 1, WindowSeconds + 10}

\* timestamps of the lines already in the log at construction
LogTimes == {0, 1}

\* time.time() when the RateLimiter is constructed
BootTimes == {1, WindowSeconds}

\* [t for t in self.request_timestamps if t > cutoff]   (mutant: t >= cutoff)
KeepsAtBoundary(t, cutoff) == t >= cutoff
Keeps(t, cutoff) == t > cutoff

Prune(ts, t) ==
    LET cutoff == t - WindowSeconds
        keep(x) == Keeps(x, cutoff)
    IN SelectSeq(ts, keep)

RECURSIVE ParseUntilMalformed(_)
ParseUntilMalformed(lines) ==
    IF lines = <<>> \/ ~lines[1].valid THEN <<>>
    ELSE <<lines[1].ts>> \o ParseUntilMalformed(Tail(lines))
\* the float(line.strip()) loop of _load_history: malformed lines are skipped
ParseLines(lines) ==
    LET ok(l) == l.valid
        good == SelectSeq(lines, ok)
    IN [i \in DOMAIN good |-> good[i].ts]

\* _load_history
LoadWithoutPrune(lines, t) == ParseLines(lines)
LoadHistory(lines, t) == Prune(ParseLines(lines), t)

CanOutcomeInclusive(pruned, max) ==
    IF Len(pruned) <= max THEN "true"
    ELSE IF Len(pruned) = 0 THEN "raised"
    ELSE "false"
\* the value can_make_request returns after pruning; min() of an empty list
\* raises ValueError in the else branch
CanOutcome(pruned, max) ==
    IF Len(pruned) < max THEN "true"
    ELSE IF Len(pruned) = 0 THEN "raised"
    ELSE "false"

\* wait_seconds = (oldest + 24*60*60) - time.time()
WaitSeconds(pruned, t) == (SeqMin(pruned) + WindowSeconds) - t

\* no second RateLimiter has been constructed
NoPeer == [built |-> FALSE, request_timestamps |-> <<>>, op |-> "none",
           can_result |-> "none"]

\* whether a fresh can_make_request call would return True in this state
BudgetLeft == Len(Prune(request_timestamps, now)) < max_requests

RateStart ==
    /\ now \in BootTimes
    /\ max_requests \in 0..MaxBudget
    /\ log_file \in SeqsUpTo({GoodLine(t) : t \in LogTimes} \cup {BadLine},
                             MaxLogLines)
    /\ request_timestamps = LoadHistory(log_file, now)
    /\ recorded = ParseLines(log_file)
    /\ can_result = "none"
    /\ rl_op = "init"
    /\ peer = NoPeer

\* the clock moves on between calls
Tick ==
    /\ \E t \in Instants : t > now /\ now' = t
    /\ rl_op' = "tick"
    /\ UNCHANGED <<max_requests, request_timestamps, log_file, recorded,
                   can_result, peer>>
    /\ UNCHANGED <<sessVars, locVars, authVars, leadVars, navVars, waitVars, capVars>>

CanMakeRequest ==
    /\ request_timestamps' = Prune(request_timestamps, now)
    /\ can_result' = CanOutcome(request_timestamps', max_requests)
    /\ rl_op' = "can"
    /\ UNCHANGED <<now, max_requests, log_file, recorded, peer>>
    /\ UNCHANGED <<sessVars, locVars, authVars, leadVars, navVars, waitVars, capVars>>

RecordOnlyWhenWritten ==
    /\ Len(recorded) < MaxLogLines + MaxRecords
    /\ recorded' = Append(recorded, now)
    /\ \E write_ok \in BOOLEAN :
         IF write_ok
         THEN /\ request_timestamps' = Append(request_timestamps, now)
              /\ log_file' = Append(log_file, GoodLine(now))
         ELSE UNCHANGED <<request_timestamps, log_file>>
    /\ rl_op' = "record"
    /\ UNCHANGED <<now, max_requests, can_result, peer>>
    /\ UNCHANGED <<sessVars, locVars, authVars, leadVars, navVars, waitVars, capVars>>
RecordRequest ==
    /\ Len(recorded) < MaxLogLines + MaxRecords
    /\ request_timestamps' = Append(request_timestamps, now)
    /\ recorded' = Append(recorded, now)
    /\ \E write_ok \in BOOLEAN :
         log_file' = IF write_ok THEN Append(log_file, GoodLine(now))
                     ELSE log_file
    /\ rl_op' = "record"
    /\ UNCHANGED <<now, max_requests, can_result, peer>>
    /\ UNCHANGED <<sessVars, locVars, authVars, leadVars, navVars, waitVars, capVars>>

(***************************************************************************)
(* SessionService                                                          *)
(***************************************************************************)

\* A browser cookie as the driver holds it.  "(none)" stands for a cookie
\* dict without a 'name' key, for which cookie.get('name') is None.
Cookie(n, v, he, e) == [name |-> n, value |-> v, has_expiry |-> he, expiry |-> e]

CUser == Cookie("c_user", "u1", FALSE, 0)
Xs == Cookie("xs", "s1", TRUE, WindowSeconds + 1)
Datr == Cookie("datr", "d1", TRUE, 0)
Nameless == Cookie("(none)", "n1", FALSE, 0)

CookieKinds == {CUser, Xs, Datr, Nameless}

\* cookies per cookie set
MaxCookies == 3

CookieLists == SeqsUpTo(CookieKinds, MaxCookies)

\* A record of the external export.  keys are the keys the JSON object has;
\* expirationDate is in milliseconds so that int() has a fraction to drop.
ExportKeys == {"name", "value", "domain", "path", "secure", "httpOnly"}

Export(n, v, ks, ms) == [name |-> n, value |-> v, keys |-> ks, expirationDate |-> ms]

ExpCUser == Export("c_user", "u9", ExportKeys, 0)
ExpXs == Export("xs", "s9", ExportKeys \cup {"expirationDate"}, 86401500)
ExpNoFlags == Export("xs", "s9", ExportKeys \ {"httpOnly"}, 0)

ExportKinds == {ExpCUser, ExpXs, ExpNoFlags}

\* records per export file
MaxExport == 2

\* A file: absent, unreadable by its decoder, or holding data.
Absent == [state |-> "absent", data |-> <<>>]
Garbage == [state |-> "garbage", data |-> <<>>]
Holding(d) == [state |-> "data", data |-> d]

NoInfo == [state |-> "absent", last_login |-> 0]
BadInfo == [state |-> "garbage", last_login |-> 0]
Info(t) == [state |-> "data", last_login |-> t]

\* Optional[List[...]]: None, or a list
None == [some |-> FALSE, cookies |-> <<>>]
Some(cs) == [some |-> TRUE, cookies |-> cs]

\* Python truthiness of an Optional[List]: neither None nor []
Truthy(r) == r.some /\ Len(r.cookies) > 0

\* int(cookie["expirationDate"])
IntOfMillis(ms) == ms \div 1000

\* the selenium_cookie dict built from one export record
ToSelenium(e) ==
    IF "expirationDate" \in e.keys
    THEN Cookie(e.name, e.value, TRUE, IntOfMillis(e.expirationDate))
    ELSE Cookie(e.name, e.value, FALSE, 0)

\* the try block of _load_laptop_cookies runs to its end: the JSON decodes
\* and no cookie[...] lookup raises KeyError
Converts(f) ==
    /\ f.state = "data"
    /\ \A i \in DOMAIN f.data : ExportKeys \subseteq f.data[i].keys

\* _load_laptop_cookies
LoadLaptopCookies(f) ==
    IF f.state = "absent" THEN None
    ELSE IF Converts(f) THEN Some([i \in DOMAIN f.data |-> ToSelenium(f.data[i])])
    ELSE None

\* _check_expired_cookies
RECURSIVE CheckExpiredCookies(_, _)
CheckExpiredCookies(cs, t) ==
    IF cs = <<>> THEN 0
    ELSE (IF cs[1].has_expiry /\ cs[1].expiry < t THEN 1 ELSE 0)
         + CheckExpiredCookies(Tail(cs), t)

\* _load_saved_cookies: falls off the end (None) when the file is missing
LoadSavedCookies(f) ==
    IF f.state = "data" THEN Some(f.data) ELSE None

\* load_cookies          (mutant: the saved cookies are tried first)
LoadCookiesSavedFirst(lf, cf) ==
    IF Truthy(LoadSavedCookies(cf)) THEN LoadSavedCookies(cf)
    ELSE IF Truthy(LoadLaptopCookies(lf)) THEN LoadLaptopCookies(lf)
    ELSE None
LoadCookies(lf, cf) ==
    IF Truthy(LoadLaptopCookies(lf)) THEN LoadLaptopCookies(lf)
    ELSE IF Truthy(LoadSavedCookies(cf)) THEN LoadSavedCookies(cf)
    ELSE None

\* cookie_names = {cookie.get('name') for cookie in cookies}
CookieNames(cs) == {cs[i].name : i \in DOMAIN cs}

EssentialCookies == {"c_user", "xs"}

\* validate_cookies      (mutant: one essential cookie is enough)
ValidateAnyEssential(cs) ==
    Len(cs) > 0 /\ (EssentialCookies \cap CookieNames(cs)) # {}
ValidateCookies(cs) ==
    IF Len(cs) = 0 THEN FALSE
    ELSE (EssentialCookies \ CookieNames(cs)) = {}

\* One write of save_cookies: open() fails and leaves the file as it was,
\* or dump() fails after open() truncated it, or the write completes.
WriteOutcomes == {"ok", "open_failed", "dump_failed"}

Written(old, new, how) ==
    CASE how = "ok" -> new
      [] how = "open_failed" -> old
      [] how = "dump_failed" -> Garbage

WrittenInfo(old, new, how) ==
    CASE how = "ok" -> new
      [] how = "open_failed" -> old
      [] how = "dump_failed" -> BadInfo

\* save_cookies, as the files it leaves and the value it returns.  w is the
\* outcome of the pickle, JSON and session-info writes; a write after a
\* failed one of the first two is not attempted.  _save_session_info
\* catches its own exception.
SaveCookies(cs, w, pkl, js, info, t) ==
    IF w[1] # "ok"
    THEN [pkl |-> Written(pkl, Holding(cs), w[1]), js |-> js, info |-> info,
          result |-> FALSE]
    ELSE IF w[2] # "ok"
    THEN [pkl |-> Holding(cs), js |-> Written(js, Holding(cs), w[2]),
          info |-> info, result |-> FALSE]
    ELSE [pkl |-> Holding(cs), js |-> Holding(cs),
          info |-> WrittenInfo(info, Info(t), w[3]), result |-> TRUE]

\* the writes save_cookies attempts under outcome w, as <<pickle, json, info>>
Attempted(w) ==
    IF w[1] # "ok" THEN <<w[1], "skipped", "skipped">>
    ELSE IF w[2] # "ok" THEN <<w[1], w[2], "skipped">>
    ELSE w

SessionStart ==
    /\ laptop_file \in {Absent, Garbage}
                       \cup {Holding(d) : d \in SeqsUpTo(ExportKinds, MaxExport)}
    /\ cookie_file \in {Absent, Garbage, Holding(<<>>), Holding(<<CUser, Xs>>),
                        Holding(<<Datr>>)}
    /\ json_cookie_file = cookie_file
    /\ session_info_file = IF cookie_file.state = "data" THEN Info(0) ELSE NoInfo
    /\ ss_arg = <<>>
    /\ load_result = None
    /\ validate_result = FALSE
    /\ save_result = FALSE
    /\ save_writes = <<"skipped", "skipped", "skipped">>
    /\ ss_op = "init"

SessionIdle ==
    /\ laptop_file = Absent
    /\ cookie_file = Absent
    /\ json_cookie_file = Absent
    /\ session_info_file = NoInfo
    /\ ss_arg = <<>>
    /\ load_result = None
    /\ validate_result = FALSE
    /\ save_result = FALSE
    /\ save_writes = <<"skipped", "skipped", "skipped">>
    /\ ss_op = "init"

\* the cookie sets the browser hands to save_cookies
DriverCookieSets == {<<CUser, Xs>>, <<Datr>>}

CallLoadCookies ==
    /\ load_result' = LoadCookies(laptop_file, cookie_file)
    /\ ss_op' = "load"
    /\ ss_arg' = <<>>
    /\ validate_result' = FALSE
    /\ save_result' = FALSE
    /\ save_writes' = <<"skipped", "skipped", "skipped">>
    /\ UNCHANGED <<laptop_file, cookie_file, json_cookie_file,
                   session_info_file>>
    /\ UNCHANGED <<rateVars, locVars, authVars, leadVars, navVars, waitVars, capVars>>

\* validate_cookies applied to the cookie set at hand
CallValidateCookies ==
    /\ ss_op = "given"
    /\ validate_result' = ValidateCookies(ss_arg)
    /\ ss_op' = "validate"
    /\ UNCHANGED <<laptop_file, cookie_file, json_cookie_file,
                   session_info_file, ss_arg, load_result, save_result,
                   save_writes>>
    /\ UNCHANGED <<rateVars, locVars, authVars, leadVars, navVars, waitVars, capVars>>

CallSaveCookies ==
    /\ \E cs \in DriverCookieSets, w \in [1..3 -> WriteOutcomes] :
         LET r == SaveCookies(cs, w, cookie_file, json_cookie_file,
                              session_info_file, now)
         IN /\ ss_arg' = cs
            /\ cookie_file' = r.pkl
            /\ json_cookie_file' = r.js
            /\ session_info_file' = r.info
            /\ save_result' = r.result
            /\ save_writes' = Attempted(w)
    /\ ss_op' = "save"
    /\ load_result' = None
    /\ validate_result' = FALSE
    /\ UNCHANGED laptop_file
    /\ UNCHANGED <<rateVars, locVars, authVars, leadVars, navVars, waitVars, capVars>>

\* one turn of clear_session's loop: os.path.exists, then os.remove
Removal(exists, fails) ==
    IF ~exists THEN "missing"
    ELSE IF fails THEN "remove_failed"
    ELSE "removed"

\* clear_session, as the files it leaves.  fails[i] tells whether os.remove
\* raises on file i; the except clause around the whole loop ends the loop at
\* the first os.remove that raises.
ClearSession(pkl, js, info, fails) ==
    LET r1 == Removal(pkl.state # "absent", fails[1])
        r2 == Removal(js.state # "absent", fails[2])
        r3 == Removal(info.state # "absent", fails[3])
    IN  IF r1 = "remove_failed"
        THEN [pkl |-> pkl, js |-> js, info |-> info,
              did |-> <<r1, "skipped", "skipped">>]
        ELSE IF r2 = "remove_failed"
        THEN [pkl |-> Absent, js |-> js, info |-> info,
              did |-> <<r1, r2, "skipped">>]
        ELSE IF r3 = "remove_failed"
        THEN [pkl |-> Absent, js |-> Absent, info |-> info,
              did |-> <<r1, r2, r3>>]
        ELSE [pkl |-> Absent, js |-> Absent, info |-> NoInfo,
              did |-> <<r1, r2, r3>>]

ClearSessionAndImport ==
    /\ \E fails \in [1..3 -> BOOLEAN] :
         LET r == ClearSession(cookie_file, json_cookie_file,
                               session_info_file, fails)
         IN /\ cookie_file' = r.pkl
            /\ json_cookie_file' = r.js
            /\ session_info_file' = r.info
            /\ save_writes' = r.did
    /\ ss_op' = "clear"
    /\ ss_arg' = <<>>
    /\ load_result' = None
    /\ validate_result' = FALSE
    /\ save_result' = FALSE
    /\ laptop_file' = Absent
    /\ UNCHANGED <<rateVars, locVars, authVars, leadVars, navVars, waitVars, capVars>>
CallClearSession ==
    /\ \E fails \in [1..3 -> BOOLEAN] :
         LET r == ClearSession(cookie_file, json_cookie_file,
                               session_info_file, fails)
         IN /\ cookie_file' = r.pkl
            /\ json_cookie_file' = r.js
            /\ session_info_file' = r.info
            /\ save_writes' = r.did
    /\ ss_op' = "clear"
    /\ ss_arg' = <<>>
    /\ load_result' = None
    /\ validate_result' = FALSE
    /\ save_result' = FALSE
    /\ UNCHANGED laptop_file
    /\ UNCHANGED <<rateVars, locVars, authVars, leadVars, navVars, waitVars, capVars>>

(***************************************************************************)
(* FacebookService: location check and correction                          *)
(***************************************************************************)

\* What a check reads off the marketplace page and the address bar.
Pages ==
    [dollars : 0..2,          \* page_source.count('$')
     pounds : 0..1,           \* page_source.count('£')
     rebels : {0, RebelLimit - 1, RebelLimit},   \* page_source.count('rebel')
     uk_places : BOOLEAN,     \* london, manchester, ... in the page
     us_places : BOOLEAN,     \* new york, california, ... in the page
     uk_url : BOOLEAN]        \* london, uk or gb in current_url

NoPage == [dollars |-> 0, pounds |-> 0, rebels |-> 0, uk_places |-> FALSE,
           us_places |-> FALSE, uk_url |-> FALSE]

HasUsd(p) == p.dollars > 0 /\ p.dollars > p.pounds
HasGbp(p) == p.pounds > 0
HasRebel(p) == p.rebels > 0
HasFewerRebels(p) == p.rebels < RebelLimit

\* the if/elif/else of check_and_fix_location: TRUE when the page is taken
\* for the UK, FALSE when _change_location_to_uk is called
InitialAccepts(p) ==
    IF (HasUsd(p) \/ p.us_places) /\ ~(HasGbp(p) /\ p.uk_places) THEN FALSE
    ELSE IF HasGbp(p) \/ p.uk_places THEN TRUE
    ELSE FALSE

Vote(b) == IF b THEN 1 ELSE 0

\* uk_score = sum([has_gbp, has_uk_locations, has_fewer_rebels, has_uk_in_url])
UkScore(p) ==
    Vote(HasGbp(p)) + Vote(p.uk_places) + Vote(HasFewerRebels(p)) + Vote(p.uk_url)

\* return uk_score >= 2        (mutant: a single indicator is enough)
VerifyWithOneIndicator(p) == UkScore(p) >= 1
VerifyUkLocation(p) == UkScore(p) >= UkScoreNeeded

\* the uk_urls list of _try_search_location_method
UkUrlCount == 3

\* location inputs method (a) finds and tries in one call
MaxFilterInputs == 2

LocIdle ==
    /\ loc_pc = "idle"
    /\ loc_page = NoPage
    /\ loc_check = "none"
    /\ loc_accept = FALSE
    /\ loc_tried = <<>>
    /\ loc_n = 0
    /\ loc_result = "none"

\* a call of check_and_fix_location begins
LocEnter ==
    /\ loc_pc' = "check"
    /\ loc_page' = NoPage
    /\ loc_check' = "none"
    /\ loc_accept' = FALSE
    /\ loc_tried' = <<>>
    /\ loc_n' = 0
    /\ loc_result' = "none"

LocReturn(r) ==
    /\ loc_pc' = "done"
    /\ loc_result' = IF r THEN "true" ELSE "false"
    /\ loc_n' = 0

\* _verify_uk_location on page p, or raising inside its try block
LocVerify(p, raises) ==
    /\ loc_page' = IF raises THEN NoPage ELSE p
    /\ loc_check' = IF raises THEN "verify_raised" ELSE "verify"
    /\ loc_accept' = (~raises /\ VerifyUkLocation(p))

\* check_and_fix_location up to its if/elif/else
LocInitialCheck(P) ==
    /\ loc_pc = "check"
    /\ \/ \E p \in P :
            /\ loc_page' = p
            /\ loc_check' = "initial"
            /\ loc_accept' = InitialAccepts(p)
            /\ IF InitialAccepts(p)
               THEN LocReturn(TRUE) /\ UNCHANGED loc_tried
               ELSE /\ loc_pc' = "filter"
                    /\ loc_tried' = <<"filter">>
                    /\ UNCHANGED <<loc_n, loc_result>>
       \/ \* driver.get or page_source raises: except -> return False
          /\ loc_check' = "initial_raised"
          /\ LocReturn(FALSE)
          /\ UNCHANGED <<loc_page, loc_accept, loc_tried>>

\* _change_location_to_uk: each displayed location input is filled in and
\* the result verified; without success _try_search_location_method runs
LocFilterStep(P) ==
    /\ loc_pc = "filter"
    /\ \/ \* one more location input is found and tried
          /\ loc_n < MaxFilterInputs
          /\ \E p \in P, raises \in BOOLEAN :
               /\ LocVerify(p, raises)
               /\ IF ~raises /\ VerifyUkLocation(p)
                  THEN LocReturn(TRUE) /\ UNCHANGED loc_tried
                  ELSE /\ loc_n' = loc_n + 1
                       /\ UNCHANGED <<loc_pc, loc_tried, loc_result>>
       \/ \* the selectors are exhausted
          /\ loc_pc' = "urls"
          /\ loc_tried' = Append(loc_tried, "urls")
          /\ loc_n' = 0
          /\ UNCHANGED <<loc_page, loc_check, loc_accept, loc_result>>
       \/ \* the first driver.get raises: except -> return False
          /\ loc_n = 0
          /\ LocReturn(FALSE)
          /\ UNCHANGED <<loc_page, loc_check, loc_accept, loc_tried>>

\* _try_search_location_method: the UK URLs one after the other, then
\* _change_location_via_settings
LocUrlStep(P) ==
    /\ loc_pc = "urls"
    /\ \/ /\ loc_n < UkUrlCount
          /\ \E p \in P, raises \in BOOLEAN :
               /\ LocVerify(p, raises)
               /\ IF ~raises /\ VerifyUkLocation(p)
                  THEN LocReturn(TRUE) /\ UNCHANGED loc_tried
                  ELSE /\ loc_n' = loc_n + 1
                       /\ UNCHANGED <<loc_pc, loc_tried, loc_result>>
       \/ \* driver.get(url) raises: continue with the next URL
          /\ loc_n < UkUrlCount
          /\ loc_n' = loc_n + 1
          /\ UNCHANGED <<loc_pc, loc_page, loc_check, loc_accept, loc_tried,
                         loc_result>>
       \/ /\ loc_n = UkUrlCount
          /\ loc_pc' = "settings"
          /\ loc_tried' = Append(loc_tried, "settings")
          /\ loc_n' = 0
          /\ UNCHANGED <<loc_page, loc_check, loc_accept, loc_result>>

\* _change_location_via_settings: True once a save control was clicked,
\* False when none was found
LocSettingsStep ==
    /\ loc_pc = "settings"
    /\ \E saved \in BOOLEAN : LocReturn(saved)
    /\ UNCHANGED <<loc_page, loc_check, loc_accept, loc_tried>>

LocStep(P) ==
    LocInitialCheck(P) \/ LocFilterStep(P) \/ LocUrlStep(P) \/ LocSettingsStep

\* check_and_fix_location called on its own
CallCheckAndFixLocation ==
    /\ pc = "idle"
    /\ loc_pc \in {"idle", "done"}
    /\ LocEnter
    /\ UNCHANGED <<rateVars, sessVars, authVars, leadVars, navVars, waitVars, capVars>>

LocationStep ==
    /\ pc = "idle"
    /\ LocStep(Pages)
    /\ UNCHANGED <<rateVars, sessVars, authVars, leadVars, navVars, waitVars, capVars>>

(***************************************************************************)
(* FacebookService.restore_session and login, as test_navigation runs them  *)
(***************************************************************************)

AuthIdle ==
    /\ pc = "idle"
    /\ creds_ok = TRUE
    /\ captcha_cfg = "none"
    /\ driver_cookies = <<>>
    /\ events = <<>>
    /\ restore_result = "none"
    /\ login_result = "none"

\* the pages the platform serves during a restore or a login
FlowPages ==
    {[NoPage EXCEPT !.pounds = 1, !.uk_places = TRUE],
     [NoPage EXCEPT !.dollars = 2, !.us_places = TRUE, !.rebels = RebelLimit],
     [NoPage EXCEPT !.rebels = RebelLimit]}

Did(e) == \E i \in DOMAIN events : events[i] = e

\* if facebook.restore_session(): ... else: facebook.login()
\*                       (mutant: login runs whatever restore returned)
FlowAlwaysLogsIn(r) == "login_entry"
FlowAfterRestore(r) == IF r = "true" THEN "authenticated" ELSE "login_entry"

\* login's return value once the probe has succeeded: location_fixed is only
\* printed              (mutant: a failed location check fails the login)
LoginFailsOnLocation(location_fixed) == location_fixed
LoginAfterProbe(location_fixed) == TRUE

\* the add_cookie loop of restore_session: an expired cookie loses its
\* expiry field and is added all the same; an add_cookie that raises is
\* skipped
StripExpired(c, t) ==
    IF c.has_expiry /\ c.expiry < t
    THEN [c EXCEPT !.has_expiry = FALSE, !.expiry = 0]
    ELSE c

RECURSIVE Installed(_, _, _, _)
Installed(cs, failed, i, t) ==
    IF i > Len(cs) THEN <<>>
    ELSE (IF i \in failed THEN <<>> ELSE <<StripExpired(cs[i], t)>>)
         \o Installed(cs, failed, i + 1, t)

\* SimpleCaptchaService.check_and_solve, from what it finds on the page
CaptchaFindings == {"absent", "solved", "unsolved", "no_checkbox"}

CheckAndSolve(enabled, found) ==
    IF ~enabled THEN TRUE
    ELSE IF found = "absent" THEN TRUE
    ELSE IF found = "no_checkbox" THEN FALSE
    ELSE found = "solved"

\* restore_session returns r
RestoreReturns(r) ==
    /\ restore_result' = r
    /\ pc' = IF r = "raised" THEN "crashed" ELSE FlowAfterRestore(r)

\* login returns r
LoginReturns(r) ==
    /\ login_result' = r
    /\ pc' = IF r = "true" THEN "authenticated" ELSE "failed"

\* an exception inside login's try block: except -> return False
LoginCatches ==
    /\ events' = Append(events, "exception")
    /\ LoginReturns("false")

RestoreLoadOnOpenPage ==
    /\ pc = "start"
    /\ LET r == LoadCookies(laptop_file, cookie_file)
       IN /\ load_result' = r
          /\ ss_arg' = r.cookies
          /\ ss_op' = IF Truthy(r) THEN "validate" ELSE "load"
          /\ validate_result' = (Truthy(r) /\ ValidateCookies(r.cookies))
          /\ events' = Append(events, "get_home")
          /\ IF Truthy(r) /\ ValidateCookies(r.cookies)
             THEN pc' = "r_install" /\ UNCHANGED restore_result
             ELSE RestoreReturns("false")
    /\ UNCHANGED <<laptop_file, cookie_file, json_cookie_file,
                   session_info_file, save_result, save_writes>>
    /\ UNCHANGED <<creds_ok, captcha_cfg, driver_cookies, login_result>>
    /\ UNCHANGED <<rateVars, locVars, leadVars, navVars, waitVars, capVars>>
\* restore_session: load_cookies and validate_cookies
RestoreLoad ==
    /\ pc = "start"
    /\ LET r == LoadCookies(laptop_file, cookie_file)
       IN /\ load_result' = r
          /\ ss_arg' = r.cookies
          /\ ss_op' = IF Truthy(r) THEN "validate" ELSE "load"
          /\ validate_result' = (Truthy(r) /\ ValidateCookies(r.cookies))
          /\ IF Truthy(r) /\ ValidateCookies(r.cookies)
             THEN pc' = "r_install" /\ UNCHANGED restore_result
             ELSE RestoreReturns("false")
    /\ UNCHANGED <<laptop_file, cookie_file, json_cookie_file,
                   session_info_file, save_result, save_writes>>
    /\ UNCHANGED <<creds_ok, captcha_cfg, driver_cookies, events, login_result>>
    /\ UNCHANGED <<rateVars, locVars, leadVars, navVars, waitVars, capVars>>

\* restore_session: get_driver, driver.get, delete_all_cookies, the
\* add_cookie loop, refresh; a driver exception here is not caught
RestoreInstall ==
    /\ pc = "r_install"
    /\ \/ \E failed \in SUBSET DOMAIN load_result.cookies :
            /\ driver_cookies' = Installed(load_result.cookies, failed, 1, now)
            /\ events' = events \o <<"get_home", "install">>
            /\ pc' = "r_probe"
            /\ UNCHANGED restore_result
       \/ /\ RestoreReturns("raised")
          /\ UNCHANGED <<driver_cookies, events>>
    /\ UNCHANGED <<creds_ok, captcha_cfg, login_result>>
    /\ UNCHANGED <<rateVars, sessVars, locVars, leadVars, navVars, waitVars, capVars>>

\* restore_session: _is_logged_in
RestoreProbe ==
    /\ pc = "r_probe"
    /\ \/ /\ events' = Append(events, "probe_ok")
          /\ pc' = "r_location"
          /\ LocEnter
          /\ UNCHANGED restore_result
       \/ /\ events' = Append(events, "probe_failed")
          /\ RestoreReturns("false")
          /\ UNCHANGED locVars
       \/ /\ RestoreReturns("raised")
          /\ UNCHANGED <<events, locVars>>
    /\ UNCHANGED <<creds_ok, captcha_cfg, driver_cookies, login_result>>
    /\ UNCHANGED <<rateVars, sessVars, leadVars, navVars, waitVars, capVars>>

\* check_and_fix_location inside restore_session or login
FlowLocation ==
    /\ pc \in {"r_location", "l_location"}
    /\ LocStep(FlowPages)
    /\ UNCHANGED <<rateVars, sessVars, authVars, leadVars, navVars, waitVars, capVars>>

\* restore_session: return True, whatever check_and_fix_location returned
RestoreFinish ==
    /\ pc = "r_location"
    /\ loc_pc = "done"
    /\ RestoreReturns("true")
    /\ UNCHANGED <<creds_ok, captcha_cfg, driver_cookies, events, login_result>>
    /\ UNCHANGED <<rateVars, sessVars, locVars, leadVars, navVars, waitVars, capVars>>

\* login: the credentials check
LoginEnter ==
    /\ pc = "login_entry"
    /\ IF creds_ok
       THEN pc' = "l_open" /\ UNCHANGED login_result
       ELSE LoginReturns("false")
    /\ UNCHANGED <<creds_ok, captcha_cfg, driver_cookies, events, restore_result>>
    /\ UNCHANGED <<rateVars, sessVars, locVars, leadVars, navVars, waitVars, capVars>>

\* login: get_driver and driver.get(login_url)
LoginOpen ==
    /\ pc = "l_open"
    /\ \/ /\ events' = Append(events, "get_login")
          /\ pc' = "l_captcha1"
          /\ UNCHANGED login_result
       \/ LoginCatches
    /\ UNCHANGED <<creds_ok, captcha_cfg, driver_cookies, restore_result>>
    /\ UNCHANGED <<rateVars, sessVars, locVars, leadVars, navVars, waitVars, capVars>>

LoginCaptchaSkipped(here, next) ==
    /\ pc = here
    /\ pc' = next
    /\ UNCHANGED <<events, login_result>>
    /\ UNCHANGED <<creds_ok, captcha_cfg, driver_cookies, restore_result>>
    /\ UNCHANGED <<rateVars, sessVars, locVars, leadVars, navVars, waitVars, capVars>>
\* login: "if self.captcha: self.captcha.check_and_solve()", the value
\* returned is dropped
LoginCaptcha(here, next) ==
    /\ pc = here
    /\ \/ /\ captcha_cfg = "none"
          /\ pc' = next
          /\ UNCHANGED <<events, login_result>>
       \/ /\ captcha_cfg # "none"
          /\ \E found \in CaptchaFindings :
               events' = Append(events,
                   IF CheckAndSolve(captcha_cfg = "enabled", found)
                   THEN "captcha_passed" ELSE "captcha_failed")
          /\ pc' = next
          /\ UNCHANGED login_result
       \/ /\ captcha_cfg = "enabled"
          /\ LoginCatches
    /\ UNCHANGED <<creds_ok, captcha_cfg, driver_cookies, restore_result>>
    /\ UNCHANGED <<rateVars, sessVars, locVars, leadVars, navVars, waitVars, capVars>>

\* login: a field is looked for and, when found, typed into
LoginField(here, typed, next) ==
    /\ pc = here
    /\ \/ /\ events' = Append(events, typed)
          /\ pc' = next
          /\ UNCHANGED login_result
       \/ /\ LoginReturns("false")
          /\ UNCHANGED events
       \/ LoginCatches
    /\ UNCHANGED <<creds_ok, captcha_cfg, driver_cookies, restore_result>>
    /\ UNCHANGED <<rateVars, sessVars, locVars, leadVars, navVars, waitVars, capVars>>

\* login: _submit_login; the platform answers with the cookies it sets
LoginSubmit ==
    /\ pc = "l_submit"
    /\ \/ /\ events' = Append(events, "submit")
          /\ driver_cookies' \in DriverCookieSets
          /\ pc' = "l_captcha3"
          /\ UNCHANGED login_result
       \/ /\ LoginReturns("false")
          /\ UNCHANGED <<events, driver_cookies>>
       \/ /\ LoginCatches
          /\ UNCHANGED driver_cookies
    /\ UNCHANGED <<creds_ok, captcha_cfg, restore_result>>
    /\ UNCHANGED <<rateVars, sessVars, locVars, leadVars, navVars, waitVars, capVars>>

\* login: _handle_2fa looks for a code input, prints and returns
LoginTwoFactor ==
    /\ pc = "l_2fa"
    /\ \E prompt \in BOOLEAN :
         events' = IF prompt THEN Append(events, "2fa_prompt") ELSE events
    /\ pc' = "l_probe"
    /\ UNCHANGED <<creds_ok, captcha_cfg, driver_cookies, restore_result,
                   login_result>>
    /\ UNCHANGED <<rateVars, sessVars, locVars, leadVars, navVars, waitVars, capVars>>

\* login: _is_logged_in
LoginProbe ==
    /\ pc = "l_probe"
    /\ \/ /\ events' = Append(events, "probe_ok")
          /\ pc' = "l_location"
          /\ LocEnter
          /\ UNCHANGED login_result
       \/ /\ events' = Append(events, "probe_failed")
          /\ LoginReturns("false")
          /\ UNCHANGED locVars
       \/ /\ LoginCatches
          /\ UNCHANGED locVars
    /\ UNCHANGED <<creds_ok, captcha_cfg, driver_cookies, restore_result>>
    /\ UNCHANGED <<rateVars, sessVars, leadVars, navVars, waitVars, capVars>>

\* login: cookies = driver.get_cookies(); session.save_cookies(cookies)
LoginSave ==
    /\ pc = "l_location"
    /\ loc_pc = "done"
    /\ \/ /\ \E w \in [1..3 -> WriteOutcomes] :
               LET r == SaveCookies(driver_cookies, w, cookie_file,
                                    json_cookie_file, session_info_file, now)
               IN /\ ss_arg' = driver_cookies
                  /\ cookie_file' = r.pkl
                  /\ json_cookie_file' = r.js
                  /\ session_info_file' = r.info
                  /\ save_result' = r.result
                  /\ save_writes' = Attempted(w)
          /\ ss_op' = "save"
          /\ events' = Append(events, "save")
          /\ pc' = "l_screenshot"
          /\ UNCHANGED <<laptop_file, load_result, validate_result, login_result>>
       \/ /\ LoginCatches
          /\ UNCHANGED sessVars
    /\ UNCHANGED <<creds_ok, captcha_cfg, driver_cookies, restore_result>>
    /\ UNCHANGED <<rateVars, locVars, leadVars, navVars, waitVars, capVars>>

\* login: take_screenshot("login_success"); return True
LoginFinish ==
    /\ pc = "l_screenshot"
    /\ \/ /\ LoginReturns(IF LoginAfterProbe(loc_result = "true")
                          THEN "true" ELSE "false")
          /\ UNCHANGED events
       \/ LoginCatches
    /\ UNCHANGED <<creds_ok, captcha_cfg, driver_cookies, restore_result>>
    /\ UNCHANGED <<rateVars, sessVars, locVars, leadVars, navVars, waitVars, capVars>>

Login ==
    \/ LoginEnter
    \/ LoginOpen
    \/ LoginCaptcha("l_captcha1", "l_email")
    \/ LoginField("l_email", "type_email", "l_password")
    \/ LoginField("l_password", "type_password", "l_captcha2")
    \/ LoginCaptcha("l_captcha2", "l_submit")
    \/ LoginSubmit
    \/ LoginCaptcha("l_captcha3", "l_2fa")
    \/ LoginTwoFactor
    \/ LoginProbe
    \/ LoginSave
    \/ LoginFinish

RestoreSession == RestoreLoad \/ RestoreInstall \/ RestoreProbe \/ RestoreFinish

(***************************************************************************)
(* api LeadRepository and messaging LeadsRepository over the leads table    *)
(***************************************************************************)

\* the columns of a lead that decide whether an INSERT is accepted
Lead(s, c, u, t) == [session_id |-> s, camera_id |-> c, url |-> u, title |-> t]

\* a JSON null sent for a required column
NullText == "(null)"

LeadKinds ==
    { Lead(1, 7, "a", "t"), Lead(1, 7, "b", "t"), Lead(2, 7, "a", "t"),
      Lead(1, 7, "c", NullText) }

\* POST /leads/batch refuses an empty list
Batches == SeqsUpTo(LeadKinds, MaxBatch) \ {<<>>}

\* the row an accepted INSERT stores
Row(id, lead) ==
    [order_id |-> id, session_id |-> lead.session_id,
     camera_id |-> lead.camera_id, url |-> lead.url, title |-> lead.title,
     status |-> "pending", messaged_at |-> "NULL"]

\* CREATE TABLE IF NOT EXISTS: the repository that ran first fixed the key
UniqueKeys == {"url", "session_camera_url"}

SameTriple(row, lead) ==
    /\ row.session_id = lead.session_id
    /\ row.camera_id = lead.camera_id
    /\ row.url = lead.url

SameKey(key, row, lead) ==
    IF key = "url" THEN row.url = lead.url ELSE SameTriple(row, lead)

NeverConflicts(key, rows, lead) == FALSE
Conflicts(key, rows, lead) == \E r \in rows : SameKey(key, r, lead)

\* title TEXT NOT NULL
NotNullViolated(lead) == lead.title = NullText

\* psycopg2.IntegrityError covers the unique and the not-null violation
IntegrityError(key, rows, lead) ==
    NotNullViolated(lead) \/ Conflicts(key, rows, lead)

NoCall == [kind |-> "nothing", order_id |-> 0, created |-> 0, duplicates |-> 0]
NoneResult == [kind |-> "none", order_id |-> 0, created |-> 0, duplicates |-> 0]
IdResult(id) == [kind |-> "id", order_id |-> id, created |-> 0, duplicates |-> 0]
Counts(c, d) == [kind |-> "counts", order_id |-> 0, created |-> c, duplicates |-> d]

\* one INSERT ... RETURNING order_id in a transaction of its own
InsertOne(key, rows, seq, lead) ==
    IF IntegrityError(key, rows, lead)
    THEN [rows |-> rows, result |-> NoneResult]
    ELSE [rows |-> rows \cup {Row(seq, lead)}, result |-> IdResult(seq)]

\* the loop of create_batch: one transaction, conn.rollback() on a conflict,
\* conn.commit() after the last item.  txn holds the rows inserted since the
\* transaction last began.
RECURSIVE BatchRun(_, _, _, _, _, _, _)
BatchRun(key, committed, txn, seq, leads, created, duplicates) ==
    IF leads = <<>>
    THEN [rows |-> committed \cup txn, result |-> Counts(created, duplicates)]
    ELSE IF IntegrityError(key, committed \cup txn, Head(leads))
         THEN BatchRun(key, committed, {}, seq + 1, Tail(leads),
                       created, duplicates + 1)
         ELSE BatchRun(key, committed, txn \cup {Row(seq, Head(leads))},
                       seq + 1, Tail(leads), created + 1, duplicates)

NoPrev == [op |-> "none", arg |-> <<>>, result |-> NoCall, before |-> {}]

LeadIdle ==
    /\ unique_key = "url"
    /\ leads_table = {}
    /\ leads_seq = 1
    /\ lead_op = "none"
    /\ lead_arg = <<>>
    /\ lead_result = NoCall
    /\ lead_before = {}
    /\ lead_prev = NoPrev

\* _ensure_table / _ensure_database on a database without a leads table
LeadStart ==
    /\ unique_key \in UniqueKeys
    /\ leads_table = {}
    /\ leads_seq = 1
    /\ lead_op = "none"
    /\ lead_arg = <<>>
    /\ lead_result = NoCall
    /\ lead_before = {}
    /\ lead_prev = NoPrev

LeadCalled(op, leads, out) ==
    /\ lead_prev' = [op |-> lead_op, arg |-> lead_arg, result |-> lead_result,
                     before |-> lead_before]
    /\ lead_before' = leads_table
    /\ lead_op' = op
    /\ lead_arg' = leads
    /\ leads_table' = out.rows
    /\ lead_result' = out.result
    /\ leads_seq' = leads_seq + Len(leads)
    /\ UNCHANGED unique_key

\* LeadRepository.create
Create ==
    /\ leads_seq <= MaxSerial
    /\ \E lead \in LeadKinds :
          LeadCalled("create", <<lead>>,
                     InsertOne(unique_key, leads_table, leads_seq, lead))
    /\ UNCHANGED <<rateVars, sessVars, locVars, authVars, navVars, waitVars, capVars>>

\* LeadsRepository.create_lead
CreateLead ==
    /\ leads_seq <= MaxSerial
    /\ \E lead \in LeadKinds :
          LeadCalled("create_lead", <<lead>>,
                     InsertOne(unique_key, leads_table, leads_seq, lead))
    /\ UNCHANGED <<rateVars, sessVars, locVars, authVars, navVars, waitVars, capVars>>

\* LeadRepository.create_batch
CreateBatch ==
    \E leads \in Batches :
       /\ leads_seq + Len(leads) - 1 <= MaxSerial
       /\ LeadCalled("create_batch", leads,
                     BatchRun(unique_key, leads_table, {}, leads_seq, leads,
                              0, 0))
       /\ UNCHANGED <<rateVars, sessVars, locVars, authVars, navVars, waitVars, capVars>>

\* the statuses the model passes to update_status
Statuses == {"messaged", "contacted"}

BoolResult(b) ==
    [kind |-> IF b THEN "true" ELSE "false", order_id |-> 0, created |-> 0,
     duplicates |-> 0]

StampsAlways(status) == TRUE
\* if status == 'messaged': ... messaged_at = CURRENT_TIMESTAMP
Stamps(status) == status = "messaged"

\* UPDATE leads SET status = %s [, messaged_at = ...] WHERE order_id = %s
UpdatedRow(row, id, status) ==
    IF row.order_id # id THEN row
    ELSE [row EXCEPT !.status = status,
                     !.messaged_at = IF Stamps(status) THEN "stamped" ELSE @]

\* LeadRepository.update_status / LeadsRepository.update_lead_status
UpdateStatus ==
    /\ \E id \in 1..MaxSerial, status \in Statuses :
          /\ lead_arg' = <<[order_id |-> id, status |-> status]>>
          /\ leads_table' = {UpdatedRow(r, id, status) : r \in leads_table}
          /\ lead_result' = BoolResult(\E r \in leads_table : r.order_id = id)
    /\ lead_prev' = [op |-> lead_op, arg |-> lead_arg, result |-> lead_result,
                     before |-> lead_before]
    /\ lead_before' = leads_table
    /\ lead_op' = "update_status"
    /\ UNCHANGED <<unique_key, leads_seq>>
    /\ UNCHANGED <<rateVars, sessVars, locVars, authVars, navVars, waitVars, capVars>>

(***************************************************************************)
(* NavigationService                                                       *)
(***************************************************************************)

\* message_selectors of find_message_button, in list order
MessageSelectors ==
    << "[aria-label*='Message' i]", "div[role='button']:contains('Message')",
       "button:contains('Message')", "[data-testid*='message']",
       "div:contains('Message seller')", "a[href*='/messages/']" >>

\* indicators of _is_listing_page_loaded, in list order
Indicators ==
    << "[data-testid*='marketplace']", ".marketplace-listing", "[role='main']" >>

\* what one selector meets in _try_click_message_button:
\*   "raises"       find_elements, is_displayed or is_enabled raises
\*   "no_match"     no element found is both displayed and enabled
\*   "clicked"      such an element is found and _human_click clicks it
\*   "click_raises" such an element is found, the click and its fallback raise
StrategyOutcomes == {"raises", "no_match", "clicked", "click_raises"}

\* what one indicator meets in _is_listing_page_loaded:
\*   "absent"    find_element raises NoSuchElementException
\*   "hidden"    the element is found, is_displayed() is False
\*   "displayed" the element is found, is_displayed() is True
\*   "raises"    any other driver exception
LandmarkOutcomes == {"absent", "hidden", "displayed", "raises"}

\* driver.current_url as path segments, or the exception reading it raises
Url(r, segs) == [raises |-> r, segs |-> segs]

UrlKinds ==
    { Url(FALSE, <<"marketplace", "item", "42">>),
      Url(FALSE, <<"Marketplace", "Item", "42">>),
      Url(FALSE, <<"marketplace", "search">>),
      Url(FALSE, <<"login">>),
      Url(TRUE, <<>>) }

ListingPages ==
    [get : {"ok", "raises"}, url : UrlKinds,
     marks : [1..Len(Indicators) -> LandmarkOutcomes]]

\* str.lower() on one path segment
LowerSeg(x) ==
    CASE x = "Marketplace" -> "marketplace"
      [] x = "Item" -> "item"
      [] x = "Checkpoint" -> "checkpoint"
      [] x = "Login" -> "login"
      [] OTHER -> x

Lower(segs) == [i \in 1..Len(segs) |-> LowerSeg(segs[i])]

\* '/marketplace/item/' in ...: the two segments, and the slash that ends them
HasItemPath(segs) ==
    \E i \in 1..(Len(segs) - 2) :
       segs[i] = "marketplace" /\ segs[i + 1] = "item"

\* the indicator loop: NoSuchElementException and a hidden element move on,
\* any other exception leaves through the outer except
RECURSIVE LandmarkShown(_, _)
LandmarkShown(marks, i) ==
    IF i > Len(marks) THEN FALSE
    ELSE CASE marks[i] = "displayed" -> TRUE
           [] marks[i] = "raises" -> FALSE
           [] OTHER -> LandmarkShown(marks, i + 1)

LoadedByUrlAlone(page) ==
    ~page.url.raises /\ HasItemPath(Lower(page.url.segs))
IsListingPageLoaded(page) ==
    IF page.url.raises THEN FALSE
    ELSE IF ~HasItemPath(Lower(page.url.segs)) THEN FALSE
    ELSE LandmarkShown(page.marks, 1)

\* NavigationResult, and whether the call raised instead of returning
NavResult(ok, err) == [success |-> ok, error |-> err, raised |-> FALSE]

NoNavResult == [success |-> FALSE, error |-> "(no call)", raised |-> FALSE]

\* str(e) of the exception driver.get raised
ExceptionText == "Message: unknown error"

NavigateOutcome(page) ==
    IF page.get = "raises" THEN NavResult(FALSE, ExceptionText)
    ELSE IF IsListingPageLoaded(page) THEN NavResult(TRUE, "")
    ELSE NavResult(FALSE, "Page load failed")

ExhaustedAfterFirst(i) == TRUE
\* for selector in message_selectors: the loop ends after the last selector
Exhausted(i) == i = Len(MessageSelectors)

NavIdle ==
    /\ nav_driver = FALSE
    /\ nav_pc = "idle"
    /\ nav_op = "init"
    /\ nav_page = <<>>
    /\ nav_tried = <<>>
    /\ nav_clicks = <<>>
    /\ nav_result = NoNavResult

\* NavigationService.navigate_to_listing
NavigateToListing(P) ==
    /\ nav_pc = "idle"
    /\ \E page \in P :
          /\ nav_page' = page
          /\ nav_result' = NavigateOutcome(page)
    /\ nav_driver' = TRUE
    /\ nav_op' = "navigate_to_listing"
    /\ nav_tried' = <<>>
    /\ nav_clicks' = <<>>
    /\ UNCHANGED nav_pc
    /\ UNCHANGED <<rateVars, sessVars, locVars, authVars, leadVars,
                   waitVars, capVars>>

\* navigate_to_listing on any page
CallNavigateToListing == NavigateToListing(ListingPages)

\* NavigationService.find_message_button up to its loop
CallFindMessageButton ==
    /\ nav_pc = "idle"
    /\ nav_op' = "find_message_button"
    /\ nav_page' = <<>>
    /\ nav_tried' = <<>>
    /\ nav_clicks' = <<>>
    /\ IF ~nav_driver
       THEN nav_result' = NavResult(FALSE, "") /\ UNCHANGED nav_pc
       ELSE nav_result' = NoNavResult /\ nav_pc' = "finding"
    /\ UNCHANGED nav_driver
    /\ UNCHANGED <<rateVars, sessVars, locVars, authVars, leadVars,
                   waitVars, capVars>>

StopsNever(met) == FALSE
\* if self._try_click_message_button(selector): return True
Stops(met) == met = "clicked"

\* one turn of the loop: _try_click_message_button on the next selector
TryClick(M) ==
    /\ nav_pc = "finding"
    /\ \E met \in M :
          LET i == Len(nav_tried) + 1
              sel == MessageSelectors[i]
          IN  /\ nav_page' = Append(nav_page, met)
              /\ nav_tried' = Append(nav_tried, sel)
              /\ nav_clicks' = IF met \in {"clicked", "click_raises"}
                               THEN Append(nav_clicks, sel) ELSE nav_clicks
              /\ IF Stops(met)
                 THEN nav_result' = NavResult(TRUE, "") /\ nav_pc' = "idle"
                 ELSE IF Exhausted(i)
                      THEN /\ nav_result' = NavResult(FALSE, "")
                           /\ nav_pc' = "idle"
                      ELSE UNCHANGED <<nav_result, nav_pc>>
    /\ UNCHANGED <<nav_driver, nav_op>>
    /\ UNCHANGED <<rateVars, sessVars, locVars, authVars, leadVars,
                   waitVars, capVars>>

\* one turn of the loop on any outcome
TryClickMessageButton == TryClick(StrategyOutcomes)

(***************************************************************************)
(* LoginHandler.wait_for_security_code                                     *)
(***************************************************************************)

\* driver.current_url as the poll may read it, as path segments
CodePageUrls ==
    { <<"checkpoint", "2fa">>, <<"Checkpoint", "2fa">>, <<"login", "device">>,
      <<"home">> }

\* 'x' in current_url
Contains(segs, x) == \E i \in DOMAIN segs : segs[i] = x

PastCheckpointOnly(url) == ~Contains(Lower(url), "checkpoint")
\* 'checkpoint' not in current_url and 'login' not in current_url, on the
\* lower-cased URL
PastCodePage(url) ==
    /\ ~Contains(Lower(url), "checkpoint")
    /\ ~Contains(Lower(url), "login")

CodeWait(p, t, e, u, r) ==
    [pc |-> p, timeout |-> t, elapsed |-> e, polled |-> u, result |-> r]

WaitIdle == code_wait = CodeWait("idle", 0, 0, <<>>, "none")

\* wait_for_security_code(timeout): start_time = time.time()
CallWaitForSecurityCode ==
    /\ code_wait.pc = "idle"
    /\ \E timeout \in 0..MaxTimeout :
          code_wait' = CodeWait("test", timeout, 0, <<>>, "none")
    /\ UNCHANGED <<rateVars, sessVars, locVars, authVars, leadVars, navVars,
                   capVars>>

\* the loop test and, inside the window, one read of the URL
WaitPoll ==
    /\ code_wait.pc = "test"
    /\ IF code_wait.elapsed < code_wait.timeout
       THEN \E url \in CodePageUrls :
              code_wait' =
                 [code_wait EXCEPT
                    !.polled = Append(@, url),
                    !.pc = IF PastCodePage(url) THEN "done" ELSE "sleep",
                    !.result = IF PastCodePage(url) THEN "true" ELSE @]
       ELSE code_wait' = [code_wait EXCEPT !.pc = "done", !.result = "false"]
    /\ UNCHANGED <<rateVars, sessVars, locVars, authVars, leadVars, navVars,
                   capVars>>

\* time.sleep(2): at least two seconds pass
WaitSleep ==
    /\ code_wait.pc = "sleep"
    /\ \E d \in SleepSeconds..(SleepSeconds + MaxOversleep) :
          code_wait' = [code_wait EXCEPT !.elapsed = @ + d, !.pc = "test"]
    /\ UNCHANGED <<rateVars, sessVars, locVars, authVars, leadVars, navVars,
                   capVars>>

(***************************************************************************)
(* SimpleCaptchaService.check_and_solve, page by page                      *)
(***************************************************************************)

\* what _is_captcha_present meets: an indicator in the page source, only a
\* reCAPTCHA iframe, neither, or a driver exception
BeforePages == {"indicator", "iframe", "none", "raises"}

IsCaptchaPresent(before) == before \in {"indicator", "iframe"}

\* where _click_checkbox clicked: on the main page, inside a reCAPTCHA
\* iframe, or nowhere
ClickOutcomes == {"main", "iframe", "none"}

\* the page after the click: redirected home or not, "i'm not a robot" and
\* an image-challenge marker in the page source or not, and whether the
\* page_source reads succeed, the first raises, or both raise
AfterPages ==
    [url_home : BOOLEAN, phrase : BOOLEAN, image_marker : BOOLEAN,
     reads : {"ok", "first_raises", "both_raise"}]

NoAfterPage ==
    [url_home |-> FALSE, phrase |-> FALSE, image_marker |-> FALSE,
     reads |-> "none"]

\* _is_solved, when it returns
IsSolved(after) ==
    IF after.url_home THEN TRUE
    ELSE IF after.reads = "ok" /\ ~after.phrase THEN TRUE
    ELSE IF after.image_marker THEN FALSE
    ELSE FALSE

\* what check_and_solve found, in the terms of CheckAndSolve
Finding(before, click, after) ==
    IF ~IsCaptchaPresent(before) THEN "absent"
    ELSE IF click = "none" THEN "no_checkbox"
    ELSE IF IsSolved(after) THEN "solved"
    ELSE "unsolved"

CaptchaCall(p, en, b, c, n, a, r) ==
    [pc |-> p, enabled |-> en, before |-> b, click |-> c, clicks |-> n,
     after |-> a, result |-> r]

CaptchaIdle ==
    captcha_call = CaptchaCall("idle", FALSE, "none", "none", 0, NoAfterPage,
                               "none")

Answer(b) == IF b THEN "true" ELSE "false"

\* check_and_solve up to time.sleep(3): the enabled test, the detection and
\* the checkbox click
CallCheckAndSolve ==
    /\ captcha_call.pc \in {"idle", "done"}
    /\ \/ captcha_call' =
             CaptchaCall("done", FALSE, "none", "none", 0, NoAfterPage,
                         Answer(CheckAndSolve(FALSE, "absent")))
       \/ \E before \in BeforePages :
             /\ ~IsCaptchaPresent(before)
             /\ captcha_call' =
                   CaptchaCall("done", TRUE, before, "none", 0, NoAfterPage,
                       Answer(CheckAndSolve(TRUE,
                                 Finding(before, "none", NoAfterPage))))
       \/ \E before \in BeforePages, click \in ClickOutcomes :
             /\ IsCaptchaPresent(before)
             /\ captcha_call' =
                   IF click = "none"
                   THEN CaptchaCall("done", TRUE, before, click, 0,
                           NoAfterPage,
                           Answer(CheckAndSolve(TRUE,
                                     Finding(before, click, NoAfterPage))))
                   ELSE CaptchaCall("clicked", TRUE, before, click, 1,
                           NoAfterPage, "none")
    /\ UNCHANGED <<rateVars, sessVars, locVars, authVars, leadVars, navVars,
                   waitVars>>

\* check_and_solve after time.sleep(3): _is_solved and the return; an
\* exception of the second page_source read leaves the call
VerifySolved ==
    /\ captcha_call.pc = "clicked"
    /\ \E after \in AfterPages :
          captcha_call' =
             [captcha_call EXCEPT
                !.pc = "done",
                !.after = after,
                !.result =
                   IF ~after.url_home /\ after.reads = "both_raise"
                   THEN "raised"
                   ELSE Answer(CheckAndSolve(TRUE,
                           Finding(captcha_call.before, captcha_call.click,
                                   after)))]
    /\ UNCHANGED <<rateVars, sessVars, locVars, authVars, leadVars, navVars,
                   waitVars>>

(***************************************************************************)
(* Specifications                                                          *)
(***************************************************************************)

RateIdle ==
    /\ now = 1
    /\ max_requests = MaxBudget
    /\ log_file = <<>>
    /\ request_timestamps = <<>>
    /\ recorded = <<>>
    /\ can_result = "none"
    /\ rl_op = "init"
    /\ peer = NoPeer

\* the RateLimiter under any order of calls and any passage of time
InitRate ==
    RateStart /\ SessionIdle /\ LocIdle /\ AuthIdle /\ LeadIdle /\ NavIdle
    /\ WaitIdle /\ CaptchaIdle

NextRate == Tick \/ CanMakeRequest \/ RecordRequest

SpecRate == InitRate /\ [][NextRate]_vars

\* load_cookies and save_cookies over the files of the session store
InitSession ==
    RateIdle /\ SessionStart /\ LocIdle /\ AuthIdle /\ LeadIdle /\ NavIdle
    /\ WaitIdle /\ CaptchaIdle

NextSession == CallLoadCookies \/ CallSaveCookies \/ CallClearSession

SpecSession == InitSession /\ [][NextSession]_vars

\* validate_cookies over every cookie set of up to MaxCookies entries
InitValidate ==
    /\ RateIdle /\ LocIdle /\ AuthIdle /\ LeadIdle /\ NavIdle
    /\ WaitIdle /\ CaptchaIdle
    /\ laptop_file = Absent
    /\ cookie_file = Absent
    /\ json_cookie_file = Absent
    /\ session_info_file = NoInfo
    /\ ss_arg \in CookieLists
    /\ load_result = None
    /\ validate_result = FALSE
    /\ save_result = FALSE
    /\ save_writes = <<"skipped", "skipped", "skipped">>
    /\ ss_op = "given"

NextValidate == CallValidateCookies

SpecValidate == InitValidate /\ [][NextValidate]_vars

\* check_and_fix_location over every page the platform may serve
InitLocation ==
    RateIdle /\ SessionIdle /\ LocIdle /\ AuthIdle /\ LeadIdle /\ NavIdle
    /\ WaitIdle /\ CaptchaIdle

NextLocation == CallCheckAndFixLocation \/ LocationStep

SpecLocation == InitLocation /\ [][NextLocation]_vars

\* test_navigation: restore_session first, login when it returns False
InitAuth ==
    /\ now = 2
    /\ max_requests \in 1..MaxBudget
    /\ log_file \in {<<>>, <<GoodLine(1)>>}
    /\ request_timestamps = LoadHistory(log_file, now)
    /\ recorded = ParseLines(log_file)
    /\ can_result = "none"
    /\ rl_op = "init"
    /\ peer = NoPeer
    /\ laptop_file \in {Absent, Holding(<<ExpCUser, ExpXs>>)}
    /\ cookie_file \in {Absent, Holding(<<CUser, Xs>>), Holding(<<Datr>>),
                       Holding(<<CUser, Xs, Datr>>)}
    /\ json_cookie_file = cookie_file
    /\ session_info_file = IF cookie_file.state = "data" THEN Info(0) ELSE NoInfo
    /\ ss_arg = <<>>
    /\ load_result = None
    /\ validate_result = FALSE
    /\ save_result = FALSE
    /\ save_writes = <<"skipped", "skipped", "skipped">>
    /\ ss_op = "init"
    /\ LocIdle /\ LeadIdle /\ NavIdle
    /\ WaitIdle /\ CaptchaIdle
    /\ pc = "start"
    /\ creds_ok \in BOOLEAN
    /\ captcha_cfg \in {"none", "disabled", "enabled"}
    /\ driver_cookies = <<>>
    /\ events = <<>>
    /\ restore_result = "none"
    /\ login_result = "none"

NextAuth == RestoreSession \/ Login \/ FlowLocation

SpecAuth == InitAuth /\ [][NextAuth]_vars

\* the two lead repositories over one leads table
InitLeads ==
    RateIdle /\ SessionIdle /\ LocIdle /\ AuthIdle /\ LeadStart /\ NavIdle
    /\ WaitIdle /\ CaptchaIdle

NextLeads == Create \/ CreateLead \/ CreateBatch

SpecLeads == InitLeads /\ [][NextLeads]_vars

\* a NavigationService called in any order over any page
InitNav ==
    RateIdle /\ SessionIdle /\ LocIdle /\ AuthIdle /\ LeadIdle /\ NavIdle
    /\ WaitIdle /\ CaptchaIdle

NextNav ==
    CallNavigateToListing \/ CallFindMessageButton \/ TryClickMessageButton

SpecNav == InitNav /\ [][NextNav]_vars

\* status updates on the leads that single creates stored
InitLeadStatus ==
    RateIdle /\ SessionIdle /\ LocIdle /\ AuthIdle /\ LeadIdle /\ NavIdle
    /\ WaitIdle /\ CaptchaIdle

NextLeadStatus == Create \/ UpdateStatus

SpecLeadStatus == InitLeadStatus /\ [][NextLeadStatus]_vars

\* one wait_for_security_code call, for any timeout and any URLs
InitWait ==
    RateIdle /\ SessionIdle /\ LocIdle /\ AuthIdle /\ LeadIdle /\ NavIdle
    /\ WaitIdle /\ CaptchaIdle

NextWait == CallWaitForSecurityCode \/ WaitPoll \/ WaitSleep

SpecWait == InitWait /\ [][NextWait]_vars

\* check_and_solve called again and again on any pages
InitCaptcha ==
    RateIdle /\ SessionIdle /\ LocIdle /\ AuthIdle /\ LeadIdle /\ NavIdle
    /\ WaitIdle /\ CaptchaIdle

NextCaptcha == CallCheckAndSolve \/ VerifySolved

SpecCaptcha == InitCaptcha /\ [][NextCaptcha]_vars

\* the listing pages the top-level flow is run on: loaded, not a listing,
\* and a driver.get that raises
FlowListingPages ==
    {[get |-> g, url |-> u, marks |-> [i \in 1..Len(Indicators) |-> mk]] :
        g \in {"ok", "raises"},
        u \in {Url(FALSE, <<"marketplace", "item", "42">>),
               Url(FALSE, <<"login">>)},
        mk \in {"displayed", "absent"}}

\* what a selector meets in the top-level flow
FlowStrategyOutcomes == {"no_match", "clicked"}

\* test_navigation: navigation.navigate_to_listing(TEST_LINK), reached only
\* past the restore-or-login block
FlowNavigate ==
    /\ pc = "authenticated"
    /\ nav_op = "init"
    /\ NavigateToListing(FlowListingPages)

\* the loop of find_message_button inside test_navigation
FlowTryClick == TryClick(FlowStrategyOutcomes)

FlowFindWhateverNavigateSaid ==
    /\ pc = "authenticated"
    /\ nav_op = "navigate_to_listing"
    /\ CallFindMessageButton

\* test_navigation: "if result.success:" navigation.find_message_button()
FlowFindMessageButton ==
    /\ pc = "authenticated"
    /\ nav_op = "navigate_to_listing"
    /\ nav_result.success
    /\ CallFindMessageButton

\* test_navigation from its restore_session call to its last call, with
\* credentials configured, on one saved cookie set or none
InitFlow ==
    /\ InitAuth
    /\ max_requests = MaxBudget
    /\ log_file = <<>>
    /\ laptop_file = Absent
    /\ cookie_file \in {Absent, Holding(<<CUser, Xs>>)}
    /\ creds_ok

NextFlow ==
    \/ RestoreSession \/ Login \/ FlowLocation
    \/ FlowNavigate \/ FlowFindMessageButton \/ FlowTryClick

SpecFlow == InitFlow /\ [][NextFlow]_vars

(***************************************************************************)
(* Properties                                                              *)
(***************************************************************************)

\* the entries of ts that are less than 24 hours old at time t
FreshCount(ts, t) == Cardinality({i \in DOMAIN ts : t - ts[i] < WindowSeconds})

\* C1: can_make_request returns true exactly when fewer than max_requests of
\* the timestamps the limiter loaded or recorded are less than 24 hours old
\* at the call; an entry that is exactly 24 hours old no longer counts.
C1_SlidingWindow ==
    rl_op = "can" =>
        ((can_result = "true") <=> (FreshCount(recorded, now) < max_requests))

\* C1 witness: a call answers true although max_requests entries were
\* recorded, one of them exactly 24 hours before the call.
C1_Witness ==
    /\ rl_op = "can"
    /\ can_result = "true"
    /\ max_requests > 0
    /\ Len(recorded) >= max_requests
    /\ \E i \in DOMAIN recorded : now - recorded[i] = WindowSeconds

\* C5: validate_cookies is true exactly when the set has an entry named
\* c_user and an entry named xs; other entries do not matter and the empty
\* set is invalid.
C5_ValidateIffBothEssential ==
    ss_op = "validate" =>
        (validate_result <=>
            /\ \E i \in DOMAIN ss_arg : ss_arg[i].name = "c_user"
            /\ \E i \in DOMAIN ss_arg : ss_arg[i].name = "xs")

\* C5 witness: a set with both essential entries and an unrelated one is
\* accepted.
C5_Witness ==
    /\ ss_op = "validate"
    /\ validate_result
    /\ \E i \in DOMAIN ss_arg : ss_arg[i].name \notin EssentialCookies

\* the export file exists, decodes as JSON and is a non-empty list
ExportParses == laptop_file.state = "data" /\ Len(laptop_file.data) > 0

\* every record of the export has the six keys the conversion reads
ExportComplete ==
    \A i \in DOMAIN laptop_file.data : ExportKeys \subseteq laptop_file.data[i].keys

\* the result is the export, record by record, in driver format
IsExport(r) ==
    /\ r.some
    /\ Len(r.cookies) = Len(laptop_file.data)
    /\ \A i \in DOMAIN laptop_file.data :
         LET e == laptop_file.data[i]
             c == r.cookies[i]
         IN /\ c.name = e.name
            /\ c.value = e.value
            /\ c.has_expiry = ("expirationDate" \in e.keys)
            /\ c.has_expiry =>
                 /\ c.expiry * 1000 <= e.expirationDate
                 /\ e.expirationDate < (c.expiry + 1) * 1000

SavedUsable == cookie_file.state = "data" /\ Len(cookie_file.data) > 0

C7_SaveTrueOnlyIfAllWritten ==
    (ss_op = "save" /\ save_result) => save_writes = <<"ok", "ok", "ok">>

\* the probe of restore_session succeeded on the installed cookies
RestoreProbeOk ==
    \E i \in DOMAIN events :
        /\ events[i] = "install"
        /\ i + 1 \in DOMAIN events
        /\ events[i + 1] = "probe_ok"

\* the probe of login succeeded after the form was submitted
LoginProbeOk ==
    \E i, j \in DOMAIN events :
        i < j /\ events[i] = "submit" /\ events[j] = "probe_ok"

\* login has touched the browser: a page load or a keystroke
LoginActed == Did("get_login") \/ Did("type_email") \/ Did("type_password")

\* C2: login loads the login page and types credentials only when
\* can_make_request() is true; with the budget used up it fails before any
\* page load or keystroke and records nothing.
C2_LoginGatedByBudget ==
    /\ LoginActed => BudgetLeft
    /\ recorded = ParseLines(log_file)

\* C3: once a persisted cookie set has passed validate_cookies and the probe
\* has succeeded on it, the flow is authenticated as soon as restore_session
\* returns: login never runs, nothing is typed or submitted, and no request
\* is recorded with the RateLimiter.
C3_RestoreShortCircuit ==
    RestoreProbeOk =>
        /\ validate_result
        /\ pc \in {"r_location", "authenticated"}
        /\ (pc = "authenticated") <=> (restore_result = "true")
        /\ login_result = "none"
        /\ ~LoginActed /\ ~Did("submit")
        /\ rl_op = "init" /\ recorded = ParseLines(log_file)

\* C3 witness: authenticated from the persisted cookies alone.
C3_Witness ==
    /\ pc = "authenticated"
    /\ restore_result = "true"
    /\ Truthy(load_result)
    /\ driver_cookies = load_result.cookies

\* C4: a captcha checkpoint of login that returns false makes the attempt
\* fail: login returns False and has saved no session.
C4_CaptchaFailureFailsLogin ==
    (Did("captcha_failed") /\ login_result # "none") =>
        (login_result = "false" /\ ~Did("save"))

\* C8: whenever the flow is authenticated, by login or by restore_session,
\* save_cookies was called with the browser's current cookies before the
\* operation returned.
C8_AuthenticatedImpliesSaved ==
    pc = "authenticated" =>
        (Did("save") /\ ss_op = "save" /\ ss_arg = driver_cookies)

\* C9: what the location check returns never changes the outcome.  After a
\* successful probe login returns True unless a later driver call raises,
\* and restore_session returns True, also when check_and_fix_location
\* returned False.
C9_LocationSoftFail ==
    /\ (login_result # "none" /\ LoginProbeOk) =>
           ((login_result = "true") <=> (events[Len(events)] # "exception"))
    /\ (restore_result # "none" /\ RestoreProbeOk) => restore_result = "true"

\* C9 witness: login returned True after all three correction methods failed.
C9_Witness ==
    /\ login_result = "true"
    /\ loc_result = "false"
    /\ loc_tried = <<"filter", "urls", "settings">>

\* the signals of _verify_uk_location that page p shows
SignalsPresent(p) ==
    Cardinality({sig \in {"gbp", "uk_places", "fewer_rebels", "uk_url"} :
        CASE sig = "gbp" -> p.pounds > 0
          [] sig = "uk_places" -> p.uk_places
          [] sig = "fewer_rebels" -> p.rebels < RebelLimit
          [] sig = "uk_url" -> p.uk_url})

\* the page is clearly American: dollars dominate or a US place is named,
\* and the page does not show both a pound sign and a UK place
ClearlyUs(p) ==
    /\ (p.dollars > 0 /\ p.dollars > p.pounds) \/ p.us_places
    /\ ~(p.pounds > 0 /\ p.uk_places)

SingleCreates == {"create", "create_lead"}

\* the committed rows that hold the given lead
RowsOf(lead, rows) == {r \in rows : SameTriple(r, lead)}

\* a lead the table accepts: every required column set, no stored row in
\* conflict with it
Fresh(lead, rows) ==
    ~NotNullViolated(lead) /\ ~Conflicts(unique_key, rows, lead)

TwoCreatesOfOneLead ==
    /\ lead_op \in SingleCreates
    /\ lead_prev.op \in SingleCreates
    /\ lead_prev.arg = lead_arg
    /\ Fresh(lead_arg[1], lead_prev.before)

\* C11: two consecutive single creates of one fresh lead: the first returns
\* an order id, the second returns None, and exactly one committed row holds
\* the lead afterwards.
C11_CreateTwiceOneRow ==
    TwoCreatesOfOneLead =>
        /\ lead_prev.result.kind = "id"
        /\ lead_result = NoneResult
        /\ Cardinality(RowsOf(lead_arg[1], leads_table)) = 1

C11_Witness ==
    /\ TwoCreatesOfOneLead
    /\ lead_result = NoneResult
    /\ lead_prev.result.kind = "id"

BatchOfOneLead ==
    /\ lead_op = "create_batch"
    /\ \A i \in 1..Len(lead_arg) : lead_arg[i] = lead_arg[1]
    /\ Fresh(lead_arg[1], lead_before)

\* C12: create_batch over one fresh lead repeated N times returns created = 1
\* and duplicates = N - 1 and leaves exactly one committed row for the lead.
C12_BatchOfSameLead ==
    BatchOfOneLead =>
        /\ lead_result = Counts(1, Len(lead_arg) - 1)
        /\ Cardinality(RowsOf(lead_arg[1], leads_table)) = 1

\* C13: after create_batch the rows newly committed number the returned
\* created count, created + duplicates is the batch length, and no row
\* committed before the call is lost.
C13_BatchConflictIsolated ==
    lead_op = "create_batch" =>
        /\ Cardinality(leads_table \ lead_before) = lead_result.created
        /\ lead_result.created + lead_result.duplicates = Len(lead_arg)
        /\ lead_before \subseteq leads_table

\* ---- NavigationService ----

FindReturnedFalse ==
    nav_op = "find_message_button" /\ nav_pc = "idle" /\ ~nav_result.success

NoSelectorClickable ==
    \A i \in 1..Len(nav_page) : nav_page[i] # "clicked"

\* C14 as stated: find_message_button returns False only after every
\* selector of the list was tried, none yielding a clickable element, and it
\* never raises.
C14_FalseOnlyAfterAllStrategies ==
    FindReturnedFalse =>
        /\ nav_tried = MessageSelectors
        /\ NoSelectorClickable
        /\ ~nav_result.raised

\* C14: with a driver set by an earlier navigate_to_listing, a False return
\* comes only after every selector was tried in list order, a raising lookup
\* or click counting as a failed selector; without a driver it returns False
\* at once and tries nothing.  It never raises.
C14_FalseAfterAllStrategiesWithDriver ==
    FindReturnedFalse =>
        /\ ~nav_result.raised
        /\ nav_driver => (nav_tried = MessageSelectors /\ NoSelectorClickable)
        /\ ~nav_driver => nav_tried = <<>>

C14_Witness ==
    /\ FindReturnedFalse
    /\ nav_driver
    /\ nav_page[1] = "raises"
    /\ nav_page[2] = "click_raises"
    /\ nav_tried = MessageSelectors

\* a landmark was seen displayed before any exception left the indicator loop
LandmarkSeen(marks) ==
    \E i \in 1..Len(marks) :
       marks[i] = "displayed" /\ \A j \in 1..(i - 1) : marks[j] # "raises"

NavigateReturned == nav_op = "navigate_to_listing"

FailureIsReported ==
    /\ ~nav_result.raised
    /\ ~nav_result.success => nav_result.error # ""

\* C15 as stated: success = True exactly when the loaded URL contains
\* '/marketplace/item/' and a landmark is displayed; anything else, driver
\* exceptions included, is success = False with an error text, never raised.
C15_SuccessIffItemUrlAndLandmark ==
    NavigateReturned =>
        /\ nav_result.success <=>
              /\ nav_page.get = "ok"
              /\ ~nav_page.url.raises
              /\ HasItemPath(nav_page.url.segs)
              /\ LandmarkSeen(nav_page.marks)
        /\ FailureIsReported

\* C15: success = True exactly when the loaded URL, lower-cased, contains
\* '/marketplace/item/' and a landmark is displayed; anything else, driver
\* exceptions included, is success = False with an error text, never raised.
C15_SuccessIffLoweredUrlAndLandmark ==
    NavigateReturned =>
        /\ nav_result.success <=>
              /\ nav_page.get = "ok"
              /\ ~nav_page.url.raises
              /\ HasItemPath(Lower(nav_page.url.segs))
              /\ LandmarkSeen(nav_page.marks)
        /\ FailureIsReported

C15_Witness ==
    /\ NavigateReturned
    /\ nav_result.success
    /\ nav_page.url.segs[1] = "Marketplace"
    /\ nav_page.marks[1] = "absent"

\* ---- RateLimiter: record_request, the log file, the wait estimate ----

RecordStep == rl_op' = "record" /\ recorded' = Append(recorded, now)

\* C16: every record_request appends the current time to the in-memory
\* sequence, whether or not the line reached the log file, and a
\* can_make_request that follows counts the new entry.
C16_RecordCountsWithoutWrite ==
    [][RecordStep =>
         /\ request_timestamps' = Append(request_timestamps, now)
         /\ BudgetLeft' <=>
               (Len(Prune(request_timestamps, now)) + 1 < max_requests)]_vars

\* C16 witness: can_make_request refuses although the log file alone holds
\* fewer than max_requests entries of the last 24 hours.
C16_Witness ==
    /\ rl_op = "can"
    /\ can_result = "false"
    /\ FreshCount(ParseLines(log_file), now) < max_requests

AfterLoadOrCheck == rl_op \in {"init", "can"}

PersistedWithinHorizon == Prune(ParseLines(log_file), now)

EveryAppendWritten == recorded = ParseLines(log_file)

C18_WaitEstimate ==
    rl_op = "can" =>
        /\ can_result # "raised"
        /\ can_result = "false" =>
              /\ Len(request_timestamps) > 0
              /\ WaitSeconds(request_timestamps, now) > 0
              /\ WaitSeconds(request_timestamps, now) <= WindowSeconds

\* ---- login: the one-time code, driver exceptions ----

\* C19: a login that met the one-time-code input returns only after having
\* polled until the page left the checkpoint or the timeout elapsed, and
\* after a timeout it returns False.
C19_TwoFactorWaitsOrFails ==
    (Did("2fa_prompt") /\ login_result # "none") =>
        /\ Did("2fa_left_checkpoint") \/ Did("2fa_timeout")
        /\ Did("2fa_timeout") => login_result = "false"

\* C20: no driver exception leaves restore_session or login: each call ends
\* with a result, and the flow is never ended by an exception.
C20_NoDriverExceptionPropagates ==
    /\ restore_result # "raised"
    /\ login_result # "raised"
    /\ pc # "crashed"

\* ---- SessionService.clear_session ----

NoneOfTheThreeExists ==
    /\ cookie_file = Absent
    /\ json_cookie_file = Absent
    /\ session_info_file = NoInfo

\* C21: clear_session attempts the removal of each of the three files even
\* when the removal of another one failed, and when no removal failed none
\* of the three files exists afterwards.
C21_ClearAttemptsEveryArtifact ==
    ss_op = "clear" =>
        /\ \A i \in 1..3 : save_writes[i] # "skipped"
        /\ (\A i \in 1..3 : save_writes[i] # "remove_failed")
              => NoneOfTheThreeExists

\* ---- update_status ----

UpdateReturned == lead_op = "update_status"

\* the row with the updated id before the call, if any
Target == {r \in lead_before : r.order_id = lead_arg[1].order_id}

\* C22: update_status on an existing id returns True and sets the status; it
\* stamps messaged_at for 'messaged' and leaves it as it was for any other
\* status; every other row is untouched.  On an id that does not exist it
\* returns False and changes no row.
C22_UpdateStatus ==
    UpdateReturned =>
        /\ lead_result = BoolResult(Target # {})
        /\ Target = {} => leads_table = lead_before
        /\ \A r \in Target :
              leads_table =
                 (lead_before \ {r}) \cup
                 {[r EXCEPT !.status = lead_arg[1].status,
                            !.messaged_at =
                               IF lead_arg[1].status = "messaged"
                               THEN "stamped" ELSE r.messaged_at]}

\* C22 witness: a lead messaged earlier is given another status and keeps
\* its messaged_at stamp.
C22_Witness ==
    /\ UpdateReturned
    /\ lead_arg[1].status = "contacted"
    /\ lead_result = BoolResult(TRUE)
    /\ \E r \in leads_table :
          /\ r.order_id = lead_arg[1].order_id
          /\ r.status = "contacted"
          /\ r.messaged_at = "stamped"

\* ---- the uniqueness key of the leads table ----

\* C23: a single create of a lead with every required column set reports a
\* duplicate exactly when a stored row has the same (session_id, camera_id,
\* url); a lead that shares only its URL with a stored row is accepted.
C23_DuplicateIffSameTriple ==
    (lead_op \in SingleCreates /\ ~NotNullViolated(lead_arg[1])) =>
        (lead_result = NoneResult <=> RowsOf(lead_arg[1], lead_before) # {})

\* ---- the external session import file ----

\* C24: no load_cookies, save_cookies or clear_session call creates, changes
\* or deletes /app/laptop_cookies.json.
C24_ImportFileUntouched == [][laptop_file' = laptop_file]_vars

\* C24 witness: the import file holds an export after a clear_session that
\* removed the saved files.
C24_Witness ==
    /\ ss_op = "clear"
    /\ laptop_file.state = "data"
    /\ save_writes = <<"removed", "removed", "removed">>

\* ---- the challenge solver ----

\* C25: a challenge that check_and_solve reports as not cleared was first
\* handed to the solving service and polled for a token: no failure is
\* reported without a token exchange having been attempted.
C25_FailureOnlyAfterTokenPolling ==
    (captcha_cfg = "enabled" /\ Did("captcha_failed")) => Did("token_poll")

\* ---- time-boxed waits and terminating calls ----

\* 'checkpoint' and 'login' looked for in the URL exactly as the driver
\* gave it
LiterallyPastCodePage(url) ==
    ~Contains(url, "checkpoint") /\ ~Contains(url, "login")

\* 'checkpoint' and 'login' looked for in the lower-cased URL
PastCodePageAnyCase(url) ==
    \A i \in DOMAIN url :
       url[i] \notin {"checkpoint", "Checkpoint", "login", "Login"}

\* C26: a poll of wait_for_security_code that reads a URL containing
\* neither 'checkpoint' nor 'login' is the last one and the call returns
\* True; the call returns False only once the timeout has elapsed.
C26_TrueAtFirstPollPastCodePage ==
    /\ \A i \in DOMAIN code_wait.polled :
          LiterallyPastCodePage(code_wait.polled[i]) =>
             i = Len(code_wait.polled) /\ code_wait.result = "true"
    /\ code_wait.result = "true" =>
          /\ code_wait.polled # <<>>
          /\ LiterallyPastCodePage(code_wait.polled[Len(code_wait.polled)])
    /\ code_wait.result = "false" => code_wait.elapsed >= code_wait.timeout

\* what is left of a wait_for_security_code call: it shrinks with the time
\* left in the window
WaitRank ==
    LET left == IF code_wait.timeout > code_wait.elapsed
                THEN code_wait.timeout - code_wait.elapsed ELSE 0
    IN CASE code_wait.pc = "idle" -> 2 * MaxTimeout + 3
         [] code_wait.pc = "test" -> 2 * left + 2
         [] code_wait.pc = "sleep" -> 2 * left + 1
         [] OTHER -> 0

WaitAnswer ==
    /\ \A i \in DOMAIN code_wait.polled :
          PastCodePageAnyCase(code_wait.polled[i]) =>
             i = Len(code_wait.polled) /\ code_wait.result = "true"
    /\ code_wait.result = "true" =>
          /\ code_wait.polled # <<>>
          /\ PastCodePageAnyCase(code_wait.polled[Len(code_wait.polled)])
    /\ code_wait.result = "false" =>
          /\ code_wait.elapsed >= code_wait.timeout
          /\ code_wait.pc = "done"
    /\ code_wait.pc = "done" => code_wait.result # "none"
    /\ Len(code_wait.polled) <= code_wait.timeout

\* C26 (amended): every step of wait_for_security_code brings the call
\* nearer to its return, by an amount bounded by the time left before the
\* timeout; a poll that reads a URL containing neither 'checkpoint' nor
\* 'login' in any letter case is the last one and the call returns True;
\* the call returns False only once the timeout has elapsed.
C26_WaitIsTimeBoxed == [][WaitRank' < WaitRank /\ WaitAnswer']_vars

\* C26 witness: the first poll read a mixed-case checkpoint URL, the call
\* slept, and a later poll past the code page made it return True.
C26_Witness ==
    /\ code_wait.result = "true"
    /\ Len(code_wait.polled) >= 2
    /\ code_wait.polled[1] = <<"Checkpoint", "2fa">>

\* what is left of check_and_fix_location
LocRank ==
    CASE loc_pc = "check" -> MaxFilterInputs + UkUrlCount + 4
      [] loc_pc = "filter" -> (MaxFilterInputs - loc_n) + UkUrlCount + 3
      [] loc_pc = "urls" -> (UkUrlCount - loc_n) + 2
      [] loc_pc = "settings" -> 1
      [] OTHER -> 0

FlowOrder ==
    <<"start", "r_install", "r_probe", "r_location", "login_entry", "l_open",
      "l_captcha1", "l_email", "l_password", "l_captcha2", "l_submit",
      "l_captcha3", "l_2fa", "l_probe", "l_location", "l_screenshot">>

\* what is left of restore_session followed by login
AuthRank ==
    LET after == {i \in DOMAIN FlowOrder : FlowOrder[i] = pc}
        ahead == IF after = {} THEN 0
                 ELSE 1 + Len(FlowOrder) - (CHOOSE i \in after : TRUE)
    IN ahead * (MaxFilterInputs + UkUrlCount + 5) + LocRank

\* restore_session and login, with the check_and_solve and
\* check_and_fix_location calls they make, return after finitely many steps
\* (SpecAuth)
AuthStepsTerminate == [][AuthRank' < AuthRank]_vars

\* find_message_button returns after at most one step per selector (SpecNav)
FindStepsTerminate ==
    [][nav_pc = "finding" =>
          /\ Len(nav_tried') = Len(nav_tried) + 1
          /\ Len(nav_tried') <= Len(MessageSelectors)]_vars

\* ---- a request log with malformed lines ----

\* the lines of the log that float() accepts and that are younger than 24 h
RecentWellFormed ==
    {i \in DOMAIN log_file :
        log_file[i].valid /\ log_file[i].ts > now - WindowSeconds}

ExpiredAt(c, t) == c.has_expiry /\ c.expiry < t

\* C28: when restore_session has run its add_cookie loop, no cookie whose
\* expiry lies in the past has been installed in the browser.
C28_ExpiredCookiesNotInstalled ==
    pc = "r_probe" =>
        \A j \in DOMAIN load_result.cookies :
           ExpiredAt(load_result.cookies[j], now) =>
              \A i \in DOMAIN driver_cookies :
                 driver_cookies[i].name # load_result.cookies[j].name

\* ---- the image challenge after the checkbox click ----

\* check_and_solve has clicked the checkbox and returned
ReturnedAfterClick ==
    /\ captcha_call.pc = "done"
    /\ captcha_call.clicks > 0
    /\ captcha_call.result # "raised"

\* C29: when check_and_solve returns after its checkbox click, an
\* image-challenge marker on a page that did not redirect home makes it
\* return False, with no click beyond the one it made; it returns True
\* only after a redirect to the home page or when neither the checkbox
\* phrase nor an image-challenge marker is left on the page.
C29_ImageChallengeReportsFailure ==
    ReturnedAfterClick =>
        /\ captcha_call.clicks = 1
        /\ (captcha_call.after.image_marker /\ ~captcha_call.after.url_home)
              => captcha_call.result = "false"
        /\ captcha_call.result = "true" =>
              \/ captcha_call.after.url_home
              \/ /\ ~captcha_call.after.phrase
                 /\ ~captcha_call.after.image_marker

\* ---- the order of the location correction methods ----

CorrectionOrder == <<"filter", "urls", "settings">>

\* C30: after a rejected location check the correction methods start in the
\* order filter, region URLs, account settings, each only while no earlier
\* one has succeeded, and check_and_fix_location returns True after a
\* correction only when the last thing it did was a _verify_uk_location
\* that accepted the page.
C30_CorrectionInOrderAndReverified ==
    /\ Len(loc_tried) <= Len(CorrectionOrder)
    /\ \A i \in DOMAIN loc_tried : loc_tried[i] = CorrectionOrder[i]
    /\ (loc_pc \in {"filter", "urls", "settings"} /\ loc_check = "verify")
          => ~loc_accept
    /\ (loc_pc = "done" /\ loc_result = "true" /\ loc_tried # <<>>)
          => (loc_check = "verify" /\ loc_accept)

\* ---- the saved encodings after save_cookies ----

\* C31: after every save_cookies call, also one in which a write failed,
\* fb_cookies.pkl and fb_cookies.json hold the identical cookie set, and
\* after a call that returned True session_info.json records that save.
C31_SavedEncodingsAgree ==
    ss_op = "save" =>
        /\ cookie_file = json_cookie_file
        /\ save_result => session_info_file = Info(now)

\* ---- loading after clear_session ----

\* C32: a load_cookies call that follows a clear_session call, with no
\* save_cookies in between, returns None.
C32_LoadAfterClearIsNone ==
    [][(ss_op = "clear" /\ ss_op' = "load") => load_result' = None]_vars

\* ---- the captcha checkpoints of login ----

\* what login has done with the browser so far, from driver.get(login_url) on
LoginTrace ==
    LET at == {i \in DOMAIN events : events[i] = "get_login"}
    IN IF at = {} THEN <<>>
       ELSE SubSeq(events, CHOOSE i \in at : TRUE, Len(events))

CheckpointKind(e) ==
    IF e \in {"captcha_passed", "captcha_failed"} THEN "captcha" ELSE e

\* the steps of login up to the third checkpoint, with and without a
\* captcha service
StepsWithCheckpoints ==
    <<"get_login", "captcha", "type_email", "type_password", "captcha",
      "submit", "captcha">>

StepsWithoutCheckpoints ==
    <<"get_login", "type_email", "type_password", "submit">>

\* the login trace follows the given steps, except that an exception may end
\* it anywhere, and no checkpoint runs after them
Follows(steps) ==
    /\ \A i \in DOMAIN LoginTrace :
          IF i <= Len(steps)
          THEN \/ CheckpointKind(LoginTrace[i]) = steps[i]
               \/ LoginTrace[i] = "exception" /\ i = Len(LoginTrace)
          ELSE CheckpointKind(LoginTrace[i]) # "captcha"

\* C33: every login runs the captcha checkpoint in three places: after the
\* login page is loaded and before a credential is typed, after both
\* credentials are typed and before the form is submitted, and after the
\* submission and before the logged-in probe.
C33_ThreeCheckpointsInOrder == Follows(StepsWithCheckpoints)

\* C33 (amended): with a captcha service attached to the FacebookService,
\* login runs the checkpoint in those three places and nowhere else; with no
\* captcha service attached it runs no checkpoint and performs the other
\* steps in the same order.
C33_ThreeCheckpointsWhenAttached ==
    IF captcha_cfg = "none" THEN Follows(StepsWithoutCheckpoints)
    ELSE Follows(StepsWithCheckpoints)

\* C33 witness: a login with a captcha service attached ran all three
\* checkpoints and went on to a successful logged-in probe.
C33_Witness ==
    /\ captcha_cfg = "enabled"
    /\ Len(LoginTrace) > Len(StepsWithCheckpoints)
    /\ LoginTrace[Len(StepsWithCheckpoints)] = "captcha_failed"
    /\ \E i \in DOMAIN LoginTrace : LoginTrace[i] = "probe_ok"
    /\ login_result = "true"

\* ---- exhausted locator lists in login ----

\* login returned False from one of its "if not ..." tests on a field or on
\* _submit_login: it loaded the page, met no exception and never came to
\* the logged-in probe
LocatorsExhausted ==
    /\ login_result = "false"
    /\ LoginTrace # <<>>
    /\ \A i \in DOMAIN LoginTrace :
          LoginTrace[i] \notin {"exception", "probe_ok", "probe_failed"}

\* the element whose locator list was exhausted
MissingElement ==
    IF ~Did("type_email") THEN "no_email_field"
    ELSE IF ~Did("type_password") THEN "no_password_field"
    ELSE "no_submit_control"

\* C34: a login that gave up because no locator found the username field,
\* the password field or a way to submit hands its caller a failure that
\* names the missing element, and has done none of the later steps.
C34_FailureNamesMissingElement ==
    LocatorsExhausted =>
        /\ login_result = MissingElement
        /\ ~Did("save")
        /\ MissingElement # "no_submit_control" => ~Did("submit")

\* ---- the click of find_message_button ----

\* the strategies, by position, that met a displayed and enabled element
Eligible ==
    {i \in DOMAIN nav_page : nav_page[i] \in {"clicked", "click_raises"}}

\* the strategies, by position, whose click went through
Landed == {i \in DOMAIN nav_page : nav_page[i] = "clicked"}

FindReturned == nav_op = "find_message_button" /\ nav_pc = "idle"

InListOrder ==
    /\ Len(nav_tried) <= Len(MessageSelectors)
    /\ \A i \in DOMAIN nav_tried : nav_tried[i] = MessageSelectors[i]

\* C35: find_message_button tries its strategies in list order and stops at
\* the first one that meets a displayed and enabled element; a call that
\* returns True has clicked exactly one element and a call that returns
\* False has clicked none.
C35_StopsAtFirstEligibleStrategy ==
    nav_op = "find_message_button" =>
        /\ InListOrder
        /\ \A i \in Eligible : i = Len(nav_tried)
        /\ (FindReturned /\ nav_result.success) => Len(nav_clicks) = 1
        /\ (FindReturned /\ ~nav_result.success) => nav_clicks = <<>>

\* C35 (amended): find_message_button tries its strategies in list order and
\* stops at the first one whose displayed and enabled element it clicks
\* without an exception: a call that returns True made exactly one such
\* click, with its last strategy, and a call that returns False made none.
\* A strategy whose click raises counts as failed and the next one is tried.
C35_StopsAtFirstLandedClick ==
    nav_op = "find_message_button" =>
        /\ InListOrder
        /\ \A i \in Landed : i = Len(nav_tried)
        /\ nav_pc = "finding" => Landed = {}
        /\ (FindReturned /\ nav_result.success) =>
              /\ Landed = {Len(nav_tried)}
              /\ nav_clicks[Len(nav_clicks)] = nav_tried[Len(nav_tried)]
        /\ (FindReturned /\ ~nav_result.success) => Landed = {}
        /\ Len(nav_clicks) = Cardinality(Eligible)

\* C35 witness: the first strategy met an element whose click raised, the
\* second one clicked its element and the call returned True without trying
\* a third.
C35_Witness ==
    /\ FindReturned
    /\ nav_result.success
    /\ nav_page = <<"click_raises", "clicked">>
    /\ Len(nav_tried) < Len(MessageSelectors)

\* ---- the order of the top-level flow ----

\* login has been entered: past its credentials test or returned
LoginEntered ==
    \/ login_result # "none"
    \/ pc \notin {"start", "r_install", "r_probe", "r_location",
                  "login_entry", "authenticated", "crashed"}

\* what the flow has done so far is in the order of test_navigation
FlowInOrder ==
    /\ LoginEntered => restore_result = "false"
    /\ nav_op # "init" =>
          /\ pc = "authenticated"
          /\ restore_result = "true" \/ login_result = "true"
    /\ (restore_result # "true" /\ login_result # "true") => nav_op = "init"

\* C36: in the top-level flow login is entered only after restore_session
\* returned False, navigate_to_listing is called only after restore_session
\* or login returned True, find_message_button is called only directly after
\* a navigate_to_listing that reported success, and when restore and login
\* both fail nothing is navigated to.
C36_TopLevelFlowOrder ==
    [][/\ FlowInOrder'
       /\ (nav_op # "find_message_button" /\ nav_op' = "find_message_button")
             => (nav_op = "navigate_to_listing" /\ nav_result.success)]_vars

\* C36 witness: restore_session returned False, login returned True, the
\* listing page loaded and the message button was clicked.
C36_Witness ==
    /\ restore_result = "false"
    /\ login_result = "true"
    /\ nav_op = "find_message_button"
    /\ nav_pc = "idle"
    /\ nav_result.success

(***************************************************************************)
(* One RateLimiter used by a caller that records a request only directly   *)
(* after a check that answered True.                                       *)
(***************************************************************************)

\* record_request called directly after can_make_request returned True; its
\* own time.time() reads the clock at or after the instant of the check
RecordAfterCheck ==
    /\ rl_op = "can"
    /\ can_result = "true"
    /\ Len(recorded) < MaxLogLines + MaxRecords
    /\ \E t \in {now} \cup {i \in Instants : i > now} :
         /\ now' = t
         /\ request_timestamps' = Append(request_timestamps, t)
         /\ recorded' = Append(recorded, t)
         /\ \E write_ok \in BOOLEAN :
              log_file' = IF write_ok THEN Append(log_file, GoodLine(t))
                          ELSE log_file
    /\ rl_op' = "record"
    /\ UNCHANGED <<max_requests, can_result, peer>>
    /\ UNCHANGED <<sessVars, locVars, authVars, leadVars, navVars, waitVars, capVars>>

\* the loaded history holds at most max_requests entries
InitChecked == InitRate /\ Len(request_timestamps) <= max_requests

NextChecked == Tick \/ CanMakeRequest \/ RecordAfterCheck

SpecChecked == InitChecked /\ [][NextChecked]_vars

\* C37: in one RateLimiter whose loaded history holds at most max_requests
\* entries and whose record_request calls each directly follow a
\* can_make_request call that returned True, the in-memory timestamps less
\* than 24 hours old never number more than max_requests.
C37_CheckedRecordsStayInBudget ==
    FreshCount(request_timestamps, now) <= max_requests

\* C37 witness: a record taken after a True check fills the budget to
\* exactly max_requests fresh entries, more than one.
C37_Witness ==
    /\ rl_op = "record"
    /\ max_requests > 0
    /\ Len(request_timestamps) > 1
    /\ FreshCount(request_timestamps, now) = max_requests

(***************************************************************************)
(* Two RateLimiter instances on one log file.  The first is the instance   *)
(* of the variables request_timestamps, can_result and rl_op; the second   *)
(* is the record peer.  Each records only directly after its own check     *)
(* answered True.                                                          *)
(***************************************************************************)

\* RateLimiter(max_requests, log_file) constructed a second time: __init__
\* reads the shared log through _load_history
PeerConstruct ==
    /\ ~peer.built
    /\ peer' = [built |-> TRUE,
                request_timestamps |-> LoadHistory(log_file, now),
                op |-> "init", can_result |-> "none"]
    /\ UNCHANGED <<now, max_requests, request_timestamps, log_file, recorded,
                   can_result, rl_op>>
    /\ UNCHANGED <<sessVars, locVars, authVars, leadVars, navVars, waitVars, capVars>>

\* can_make_request of the second instance: prunes and counts its own list
PeerCanMakeRequest ==
    /\ peer.built
    /\ LET pruned == Prune(peer.request_timestamps, now)
       IN peer' = [peer EXCEPT !.request_timestamps = pruned,
                               !.op = "can",
                               !.can_result = CanOutcome(pruned, max_requests)]
    /\ UNCHANGED <<now, max_requests, request_timestamps, log_file, recorded,
                   can_result, rl_op>>
    /\ UNCHANGED <<sessVars, locVars, authVars, leadVars, navVars, waitVars, capVars>>

\* record_request of the second instance, directly after its own True check
PeerRecordAfterCheck ==
    /\ peer.op = "can"
    /\ peer.can_result = "true"
    /\ Len(recorded) < MaxLogLines + MaxRecords
    /\ \E t \in {now} \cup {i \in Instants : i > now} :
         /\ now' = t
         /\ peer' = [peer EXCEPT
                       !.request_timestamps = Append(peer.request_timestamps, t),
                       !.op = "record"]
         /\ recorded' = Append(recorded, t)
         /\ \E write_ok \in BOOLEAN :
              log_file' = IF write_ok THEN Append(log_file, GoodLine(t))
                          ELSE log_file
    /\ UNCHANGED <<max_requests, request_timestamps, can_result, rl_op>>
    /\ UNCHANGED <<sessVars, locVars, authVars, leadVars, navVars, waitVars, capVars>>

NextShared ==
    \/ Tick
    \/ CanMakeRequest
    \/ RecordAfterCheck
    \/ PeerConstruct
    \/ PeerCanMakeRequest
    \/ PeerRecordAfterCheck

\* both instances start on a log of well-formed lines
InitShared ==
    /\ InitChecked
    /\ \A i \in DOMAIN log_file : log_file[i].valid

SpecShared == InitShared /\ [][NextShared]_vars

\* C38: with two RateLimiter instances on one log file, each recording only
\* after its own can_make_request returned True, the requests recorded by
\* both within the 24 hours before any moment never number more than
\* max_requests.
C38_SharedLogKeepsBudget ==
    FreshCount(recorded, now) <= max_requests

\* the session store as every run of SpecAuth finds it before login() is
\* called: nothing but save_cookies writes it, so it is still what InitAuth
\* describes, two equal encodings and the metadata of no save or of the
\* earlier save at time 0
StoreAsBeforeLogin ==
    /\ cookie_file.state # "garbage"
    /\ json_cookie_file = cookie_file
    /\ session_info_file =
         IF cookie_file.state = "data" THEN Info(0) ELSE NoInfo

\* C39: a login() call that returned False has left the session store
\* untouched: the pickle file, the JSON file and the metadata record are as
\* they were before the call.
C39_FailedLoginLeavesStoreUntouched ==
    login_result = "false" => StoreAsBeforeLogin

\* load_cookies gives restore_session nothing, or validate_cookies rejects
\* what it gave
NothingToInstall ==
    LET r == LoadCookies(laptop_file, cookie_file)
    IN ~Truthy(r) \/ ~ValidateCookies(r.cookies)

\* a step in which the browser is touched: the driver is acquired and the
\* home page loaded ("get_home"), the existing cookies are deleted and the
\* loaded ones added ("install"), or the browser's cookies change
TouchesBrowser == events' # events \/ driver_cookies' # driver_cookies

\* C40: when load_cookies returns nothing or validate_cookies rejects the
\* loaded set, restore_session returns False without acquiring the driver,
\* loading a page or deleting the browser's cookies; those cookies are
\* deleted only when a validated cookie set is about to be installed.
C40_EarlyFalseLeavesBrowserAlone ==
    [][/\ (pc = "start" /\ NothingToInstall)
            => (restore_result' = "false" /\ ~TouchesBrowser)
       /\ (~Did("install") /\ Did("install")')
            => (validate_result /\ ValidateCookies(load_result.cookies))]_vars

\* C40 witness: restore_session has returned False on a loaded cookie set
\* that validate_cookies rejected, and nothing has happened in the browser.
C40_Witness ==
    /\ restore_result = "false"
    /\ pc = "login_entry"
    /\ Truthy(load_result)
    /\ ~validate_result
    /\ events = <<>>
    /\ driver_cookies = <<>>

====
